---- MODULE Spec2Model ----
(***************************************************************************)
(* soap-node-redis: the RediSearch condition compiler                      *)
(* (src/src/redis.where.parser.ts, class RedisWhereParser, lines 41-96)    *)
(* the query factory (src/src/redis.query-factory.ts), the cache manager    *)
(* and the hash collection (src/src/redis-cache-manager.ts), the list      *)
(* collection (src/src/redis.list.collection.ts) and the URL builder       *)
(* (src/src/redis.utils.ts).                                               *)
(*                                                                         *)
(* A JavaScript string is a sequence of one-character strings, so that     *)
(* concatenation, join and toUpperCase are computed character by           *)
(* character.  A JavaScript value is a record with one field per type.     *)
(***************************************************************************)
EXTENDS Integers, Sequences, FiniteSets, TLC

VARIABLES
    method,  \* the function that is called
    data,    \* its argument
    pc,      \* "call" before the call, "done" after it
    ret,     \* what the call returned or threw
    queries, \* the local token lists of the factory calls in progress
    store,   \* the keys of the Redis database and what they hold
    hist,    \* what the callers did so far, as far as the claims speak of it
    last     \* the latest call on Redis: who called what, the commands, the outcome

vars == <<method, data, pc, ret, queries, store, hist, last>>

\* what the calls of the compiler and of the query factory never touch
redis == <<store, hist, last>>

(***************************************************************************)
(* Bounds of the model.                                                    *)
(***************************************************************************)
\* the largest number of nodes (conditions and groups) of a generated tree
MaxNodes == 5
\* the largest number of nodes of a generated tree some node of which may not compile
MaxFailingNodes == 4
\* the longest array given to `in` / `nin`, as groupBy and as keys
MaxArrayLen == 2
\* the largest number of fields of a sort object
MaxSortFields == 2

(***************************************************************************)
(* JavaScript values.                                                      *)
(***************************************************************************)
JsValue(t, s, n, b, items, props) ==
    [t |-> t, s |-> s, n |-> n, b |-> b, items |-> items, props |-> props]

Null == JsValue("null", << >>, 0, FALSE, << >>, << >>)
Undefined == JsValue("undefined", << >>, 0, FALSE, << >>, << >>)
Str(s) == JsValue("string", s, 0, FALSE, << >>, << >>)
Num(n) == JsValue("number", << >>, n, FALSE, << >>, << >>)
\* the number NaN: falsy, equal to no number, rendered as "NaN"
NaN == JsValue("number", << >>, 0, TRUE, << >>, << >>)
Bool(b) == JsValue("boolean", << >>, 0, b, << >>, << >>)
Arr(items) == JsValue("array", << >>, 0, FALSE, items, << >>)
\* a plain object; props is the list of its own properties, [k |-> name, v |-> value]
Obj(props) == JsValue("object", << >>, 0, FALSE, << >>, props)
\* an instance of the library class Where (data instanceof Where)
WhereObj(props) == JsValue("where", << >>, 0, FALSE, << >>, props)

Prop(k, v) == [k |-> k, v |-> v]

\* JavaScript `k in o` for an object o
HasProp(o, k) == \E i \in DOMAIN o.props : o.props[i].k = k

\* JavaScript o.k (and the destructuring const {k} = o): undefined when absent
Get(o, k) ==
    IF HasProp(o, k)
    THEN o.props[CHOOSE i \in DOMAIN o.props : o.props[i].k = k].v
    ELSE Undefined

\* a test for null alone, where the code tests falsiness
IsFalsy_NullOnly(v) == v.t = "null"

\* JavaScript !v
IsFalsy(v) ==
    \/ v.t \in {"null", "undefined"}
    \/ v.t = "string" /\ v.s = << >>
    \/ v.t = "number" /\ v.n = 0
    \/ v.t = "boolean" /\ v.b = FALSE

IsPrimitive(v) == v.t \in {"string", "number", "boolean"}

(***************************************************************************)
(* Results of a call: a returned string or a thrown error.                 *)
(***************************************************************************)
Return(s) == [kind |-> "return", val |-> s, name |-> "", msg |-> << >>]
Throw(name, msg) == [kind |-> "throw", val |-> << >>, name |-> name, msg |-> msg]
\* a TypeError raised by the runtime; its message is the engine's
TypeError == Throw("TypeError", << >>)
NoResult == [kind |-> "none", val |-> << >>, name |-> "", msg |-> << >>]

(***************************************************************************)
(* String conversion of template literals, `${v}`.                         *)
(***************************************************************************)
Digits == <<"0", "1", "2", "3", "4", "5", "6", "7", "8", "9">>

RECURSIVE NatToString(_)
NatToString(n) ==
    IF n < 10 THEN <<Digits[n + 1]>>
    ELSE NatToString(n \div 10) \o <<Digits[(n % 10) + 1]>>

NumberToString(n) ==
    IF n < 0 THEN <<"-">> \o NatToString(0 - n) ELSE NatToString(n)

RECURSIVE join(_, _)
\* a join that puts the separator after the last element too
join_TrailingSeparator(strings, separator) ==
    IF Len(strings) = 0 THEN << >>
    ELSE join(SubSeq(strings, 1, Len(strings) - 1), separator)
            \o strings[Len(strings)] \o separator

\* Array.prototype.join on an array of strings
join(strings, separator) ==
    IF Len(strings) = 0 THEN << >>
    ELSE IF Len(strings) = 1 THEN strings[1]
    ELSE join(SubSeq(strings, 1, Len(strings) - 1), separator)
            \o separator \o strings[Len(strings)]

\* the characters with a meaning in the query syntax
QuerySyntax == {<<" ">>[1], <<"&">>[1], <<"!">>[1], <<"[">>[1], <<"]">>[1], <<".">>[1], <<"*">>[1]}

RECURSIVE Escaped(_)
Escaped(s) ==
    IF s = << >> THEN << >>
    ELSE (IF Head(s) \in QuerySyntax THEN <<"\\", Head(s)>> ELSE <<Head(s)>>)
            \o Escaped(Tail(s))

RECURSIVE StringOf(_)
\* a conversion that escapes the query syntax in strings
StringOf_Escaped(v) ==
    CASE v.t = "string" -> Escaped(v.s)
      [] v.t = "number" -> (IF v.b THEN <<"N", "a", "N">> ELSE NumberToString(v.n))
      [] v.t = "boolean" -> (IF v.b THEN <<"t", "r", "u", "e">> ELSE <<"f", "a", "l", "s", "e">>)
      [] v.t = "null" -> <<"n", "u", "l", "l">>
      [] v.t = "undefined" -> <<"u", "n", "d", "e", "f", "i", "n", "e", "d">>
      [] v.t = "array" ->
            join([i \in DOMAIN v.items |->
                    IF v.items[i].t \in {"null", "undefined"} THEN << >>
                    ELSE StringOf(v.items[i])], <<",">>)
      [] OTHER -> <<"[", "o", "b", "j", "e", "c", "t", " ", "O", "b", "j", "e", "c", "t", "]">>

StringOf(v) ==
    CASE v.t = "string" -> v.s
      [] v.t = "number" -> (IF v.b THEN <<"N", "a", "N">> ELSE NumberToString(v.n))
      [] v.t = "boolean" -> (IF v.b THEN <<"t", "r", "u", "e">> ELSE <<"f", "a", "l", "s", "e">>)
      [] v.t = "null" -> <<"n", "u", "l", "l">>
      [] v.t = "undefined" -> <<"u", "n", "d", "e", "f", "i", "n", "e", "d">>
      [] v.t = "array" ->
            \* Array.prototype.toString: join(","), null and undefined as ""
            join([i \in DOMAIN v.items |->
                    IF v.items[i].t \in {"null", "undefined"} THEN << >>
                    ELSE StringOf(v.items[i])], <<",">>)
      [] OTHER -> <<"[", "o", "b", "j", "e", "c", "t", " ", "O", "b", "j", "e", "c", "t", "]">>

(***************************************************************************)
(* String.prototype.toUpperCase.                                           *)
(***************************************************************************)
LowerCase == <<"a", "b", "c", "d", "e", "f", "g", "h", "i", "j", "k", "l", "m", "n", "o", "p", "q", "r", "s", "t", "u", "v", "w", "x", "y", "z">>
UpperCase == <<"A", "B", "C", "D", "E", "F", "G", "H", "I", "J", "K", "L", "M", "N", "O", "P", "Q", "R", "S", "T", "U", "V", "W", "X", "Y", "Z">>

UpperChar(c) ==
    IF \E i \in DOMAIN LowerCase : LowerCase[i] = c
    THEN UpperCase[CHOOSE i \in DOMAIN LowerCase : LowerCase[i] = c]
    ELSE c

\* no change of case
toUpperCase_Identity(s) == s

toUpperCase(s) == [i \in DOMAIN s |-> UpperChar(s[i])]

RECURSIVE parse(_)

(***************************************************************************)
(* RedisWhereParser.                                                       *)
(***************************************************************************)
\* a comparison that ignores the case of the operator
IsOperator_IgnoreCase(operator, name) ==
    operator.t = "string" /\ toUpperCase(operator.s) = toUpperCase(name)

\* the `case "name":` test of the switch: strict equality with a string literal
IsOperator(operator, name) == operator.t = "string" /\ operator.s = name

\* right.map(value => `<prefix>${left}:{${value}}`), a TypeError when right is no array
MapTerms(prefix, left, right) ==
    [i \in DOMAIN right.items |->
        prefix \o StringOf(left) \o <<":", "{">> \o StringOf(right.items[i]) \o <<"}">>]

\* the switch with the templates of gt and gte exchanged
parseSimpleCondition_GtGteSwapped(condition) ==
    LET left == Get(condition, "left")
        operator == Get(condition, "operator")
        right == Get(condition, "right")
    IN  CASE IsOperator(operator, <<"e", "q">>) ->
                Return(<<"@">> \o StringOf(left) \o <<":", "{">> \o StringOf(right) \o <<"}">>)
          [] IsOperator(operator, <<"n", "e">>) ->
                Return(<<"-", "@">> \o StringOf(left) \o <<":", "{">> \o StringOf(right) \o <<"}">>)
          [] IsOperator(operator, <<"g", "t">>) ->
                Return(<<"@">> \o StringOf(left) \o <<":", "[">> \o StringOf(right) \o <<" ", "+", "i", "n", "f", "]">>)
          [] IsOperator(operator, <<"l", "t">>) ->
                Return(<<"@">> \o StringOf(left) \o <<":", "[", "-", "i", "n", "f", " ", "(">> \o StringOf(right) \o <<")", "]">>)
          [] IsOperator(operator, <<"g", "t", "e">>) ->
                Return(<<"@">> \o StringOf(left) \o <<":", "[", "(">> \o StringOf(right) \o <<" ", "+", "i", "n", "f", "]">>)
          [] IsOperator(operator, <<"l", "t", "e">>) ->
                Return(<<"@">> \o StringOf(left) \o <<":", "[", "-", "i", "n", "f", " ">> \o StringOf(right) \o <<"]">>)
          [] IsOperator(operator, <<"i", "n">>) ->
                IF right.t # "array" THEN TypeError
                ELSE Return(join(MapTerms(<<"@">>, left, right), <<" ", "|", " ">>))
          [] IsOperator(operator, <<"n", "i", "n">>) ->
                IF right.t # "array" THEN TypeError
                ELSE Return(join(MapTerms(<<"-", "@">>, left, right), <<" ">>))
          [] IsOperator(operator, <<"l", "i", "k", "e">>) ->
                Return(<<"@">> \o StringOf(left) \o <<":", "/", ".", "*">> \o StringOf(right) \o <<".", "*", "/">>)
          [] OTHER ->
                Throw("Error", <<"U", "n", "s", "u", "p", "p", "o", "r", "t", "e", "d", " ", "o", "p", "e", "r", "a", "t", "o", "r", " ">> \o StringOf(operator))

parseSimpleCondition(condition) ==
    LET left == Get(condition, "left")
        operator == Get(condition, "operator")
        right == Get(condition, "right")
    IN  CASE IsOperator(operator, <<"e", "q">>) ->
                Return(<<"@">> \o StringOf(left) \o <<":", "{">> \o StringOf(right) \o <<"}">>)
          [] IsOperator(operator, <<"n", "e">>) ->
                Return(<<"-", "@">> \o StringOf(left) \o <<":", "{">> \o StringOf(right) \o <<"}">>)
          [] IsOperator(operator, <<"g", "t">>) ->
                Return(<<"@">> \o StringOf(left) \o <<":", "[", "(">> \o StringOf(right) \o <<" ", "+", "i", "n", "f", "]">>)
          [] IsOperator(operator, <<"l", "t">>) ->
                Return(<<"@">> \o StringOf(left) \o <<":", "[", "-", "i", "n", "f", " ", "(">> \o StringOf(right) \o <<")", "]">>)
          [] IsOperator(operator, <<"g", "t", "e">>) ->
                Return(<<"@">> \o StringOf(left) \o <<":", "[">> \o StringOf(right) \o <<" ", "+", "i", "n", "f", "]">>)
          [] IsOperator(operator, <<"l", "t", "e">>) ->
                Return(<<"@">> \o StringOf(left) \o <<":", "[", "-", "i", "n", "f", " ">> \o StringOf(right) \o <<"]">>)
          [] IsOperator(operator, <<"i", "n">>) ->
                IF right.t # "array" THEN TypeError
                ELSE Return(join(MapTerms(<<"@">>, left, right), <<" ", "|", " ">>))
          [] IsOperator(operator, <<"n", "i", "n">>) ->
                IF right.t # "array" THEN TypeError
                ELSE Return(join(MapTerms(<<"-", "@">>, left, right), <<" ">>))
          [] IsOperator(operator, <<"l", "i", "k", "e">>) ->
                Return(<<"@">> \o StringOf(left) \o <<":", "/", ".", "*">> \o StringOf(right) \o <<".", "*", "/">>)
          [] OTHER ->
                Throw("Error", <<"U", "n", "s", "u", "p", "p", "o", "r", "t", "e", "d", " ", "o", "p", "e", "r", "a", "t", "o", "r", " ">> \o StringOf(operator))

\* a group compiled without its parentheses
parseNestedCondition_NoParentheses(nestedCondition) ==
    LET conditions == Get(nestedCondition, "conditions")
        operator == Get(nestedCondition, "operator")
    IN  IF conditions.t # "array" THEN TypeError
        ELSE
          LET parsed == [i \in DOMAIN conditions.items |-> parse(conditions.items[i])]
              thrown == {i \in DOMAIN parsed : parsed[i].kind = "throw"}
          IN  IF thrown # {}
              THEN \* map stops at the first operand whose parse throws
                   parsed[CHOOSE i \in thrown : \A j \in thrown : i <= j]
              ELSE IF operator.t # "string" THEN TypeError
              ELSE Return(<< >>
                          \o join([i \in DOMAIN parsed |-> parsed[i].val],
                                  <<" ">> \o toUpperCase(operator.s) \o <<" ">>)
                          \o << >>)

parseNestedCondition(nestedCondition) ==
    LET conditions == Get(nestedCondition, "conditions")
        operator == Get(nestedCondition, "operator")
    IN  IF conditions.t # "array" THEN TypeError
        ELSE
          LET parsed == [i \in DOMAIN conditions.items |-> parse(conditions.items[i])]
              thrown == {i \in DOMAIN parsed : parsed[i].kind = "throw"}
          IN  IF thrown # {}
              THEN \* map stops at the first operand whose parse throws
                   parsed[CHOOSE i \in thrown : \A j \in thrown : i <= j]
              ELSE IF operator.t # "string" THEN TypeError
              ELSE Return(<<"(">>
                          \o join([i \in DOMAIN parsed |-> parsed[i].val],
                                  <<" ">> \o toUpperCase(operator.s) \o <<" ">>)
                          \o <<")">>)

\* an unrecognised object taken as "match everything"
parse_UnknownMatchesAll(d) ==
    IF IsFalsy(d) THEN Return(<<"*">>)
    ELSE IF d.t = "where" THEN parse(Get(d, "result"))
    ELSE IF IsPrimitive(d) THEN TypeError  \* "left" in <primitive>
    ELSE IF HasProp(d, "left") THEN parseSimpleCondition(d)
    ELSE IF HasProp(d, "conditions") THEN parseNestedCondition(d)
    ELSE Return(<<"*">>)

parse(d) ==
    IF IsFalsy(d) THEN Return(<<"*">>)
    ELSE IF d.t = "where" THEN parse(Get(d, "result"))
    ELSE IF IsPrimitive(d) THEN TypeError  \* "left" in <primitive>
    ELSE IF HasProp(d, "left") THEN parseSimpleCondition(d)
    ELSE IF HasProp(d, "conditions") THEN parseNestedCondition(d)
    ELSE Throw("Error", <<"I", "n", "v", "a", "l", "i", "d", " ", "c", "o", "n", "d", "i", "t", "i", "o", "n", " ", "f", "o", "r", "m", "a", "t">>)

(***************************************************************************)
(* The inputs of the calls.                                                *)
(***************************************************************************)
Condition(left, operator, right) ==
    Obj(<<Prop("left", Str(left)), Prop("operator", Str(operator)), Prop("right", right)>>)

NestedCondition(conditions, operator) ==
    Obj(<<Prop("conditions", Arr(conditions)), Prop("operator", Str(operator))>>)

SupportedOperators ==
    {<<"e", "q">>, <<"n", "e">>, <<"g", "t">>, <<"l", "t">>, <<"g", "t", "e">>, <<"l", "t", "e">>, <<"i", "n">>, <<"n", "i", "n">>, <<"l", "i", "k", "e">>}
UnsupportedOperators == {<<"r", "e", "g", "e", "x">>, <<"E", "Q">>, << >>}
Operators == SupportedOperators \cup UnsupportedOperators

Fields == {<<"a", "g", "e">>, <<"f", "-", "n", "_", "w", ".", "s">>, <<"a", " ", "b", "[", "*", "]">>}

Scalars ==
    {Str(<< >>), Str(<<"J", "o", "h", "n">>), Str(<<"1", "8">>), Str(<<"a", " ", "b", " ", "&", " ", "c", "!">>), Str(<<"t", "[", "0", "-", "9", "]", "+", ".", "*">>),
     Num(0), Num(7), Num(123), Num(0 - 45), Bool(TRUE), Bool(FALSE), Null}

ArrayItems == {Str(<<"a">>), Str(<<"b", " ", "c">>), Num(10), Null}

RECURSIVE SeqsUpTo(_, _)
\* the sequences over S of length at most n
SeqsUpTo(S, n) ==
    IF n = 0 THEN {<< >>}
    ELSE LET shorter == SeqsUpTo(S, n - 1)
         IN  shorter \cup {Append(q, x) : q \in {p \in shorter : Len(p) = n - 1}, x \in S}

Arrays == {Arr(items) : items \in SeqsUpTo(ArrayItems, MaxArrayLen)}

\* the leaf conditions given directly to parse
Leaves ==
    {Condition(f, op, v) : f \in Fields, op \in Operators, v \in Scalars \cup Arrays}

\* objects of no recognised shape
Shapeless ==
    {Obj(<<Prop("someProperty", Str(<<"v", "a", "l", "u", "e">>))>>), Obj(<< >>), Arr(<< >>),
     Obj(<<Prop("operator", Str(<<"e", "q">>)), Prop("right", Str(<<"1">>))>>)}

\* the operands the generated groups are built from: two conditions that compile,
\* one with an unsupported operator and one object of no recognised shape
GoodAtoms ==
    {Condition(<<"a">>, <<"e", "q">>, Str(<<"1">>)),
     Condition(<<"a", "g", "e">>, <<"l", "t">>, Num(65))}
BadAtoms ==
    {Condition(<<"a">>, <<"r", "e", "g", "e", "x">>, Str(<<"1">>)),
     Obj(<<Prop("someProperty", Str(<<"v", "a", "l", "u", "e">>))>>)}

Combinators == {<<"a", "n", "d">>, <<"O", "r">>}
\* the combinator of a generated group without operands
EmptyCombinator == <<"a", "n", "d">>
\* the combinators of the one-level groups
AnyCase == Combinators \cup {<<"o", "r">>, <<"A", "N", "D">>, <<"a", "N", "d">>, <<"x", "o", "r">>}

RECURSIVE TreesOf(_, _), ForestsOf(_, _)
\* the trees of exactly n nodes over the operands in atoms
TreesOf(atoms, n) ==
    IF n = 1
    THEN atoms \cup {NestedCondition(<< >>, EmptyCombinator)}
    ELSE {NestedCondition(f, c) : f \in ForestsOf(atoms, n - 1), c \in Combinators}

\* the lists of trees of exactly n nodes in all
ForestsOf(atoms, n) ==
    IF n = 0 THEN {<< >>}
    ELSE UNION {{<<t>> \o f : t \in TreesOf(atoms, k), f \in ForestsOf(atoms, n - k)} :
                k \in 1..n}

\* the trees every node of which compiles
Trees == UNION {TreesOf(GoodAtoms, n) : n \in 1..MaxNodes}
\* the trees that may hold a node that does not compile
FailingTrees == UNION {TreesOf(GoodAtoms \cup BadAtoms, n) : n \in 1..MaxFailingNodes}

\* what a wrapper holds
Resolved == UNION {TreesOf(GoodAtoms \cup BadAtoms, n) : n \in 1..(MaxFailingNodes - 1)}

\* instances of Where: build() returns b; the library either keeps `result`
\* equal to it or defines no `result` at all
Wheres ==
    {WhereObj(<<Prop("result", b), Prop("build", b)>>) : b \in Resolved}
    \cup {WhereObj(<<Prop("build", b)>>) : b \in Resolved}

\* plain objects with a `result` property
ResultObjects == {Obj(<<Prop("result", r)>>) : r \in Resolved}

\* groups of one level, with operands of every kind and combinators of every case
GroupOperands ==
    GoodAtoms \cup BadAtoms
    \cup {Null,
          WhereObj(<<Prop("result", Condition(<<"w">>, <<"n", "e">>, Bool(TRUE))),
                     Prop("build", Condition(<<"w">>, <<"n", "e">>, Bool(TRUE)))>>)}

Groups ==
    {NestedCondition(ops, c) :
        ops \in SeqsUpTo(GroupOperands, MaxArrayLen), c \in AnyCase}

\* values that are no objects
Primitives == {Str(<< >>), Num(0), Bool(FALSE), Str(<<"a", "b", "c">>), Num(5), Bool(TRUE)}

Inputs ==
    {Null, Undefined} \cup Primitives \cup Leaves \cup Shapeless \cup Trees
    \cup FailingTrees \cup Groups \cup Wheres \cup ResultObjects

(***************************************************************************)
(* The calls: a caller hands parse one value and gets its result.          *)
(***************************************************************************)
Init ==
    /\ method = "parse"
    /\ data \in Inputs
    /\ pc = "call"
    /\ ret = NoResult
    /\ queries = << >>
    /\ store = << >>
    /\ hist = << >>
    /\ last = << >>

Parse ==
    /\ method = "parse"
    /\ pc = "call"
    /\ ret' = parse(data)
    /\ pc' = "done"
    /\ UNCHANGED <<method, data, queries, redis>>

Next == Parse

Spec == Init /\ [][Next]_vars

(***************************************************************************)
(* What the claims speak of.                                               *)
(***************************************************************************)
Done == pc = "done"

IsLeaf(d) == d.t = "object" /\ HasProp(d, "left")
IsGroup(d) == d.t = "object" /\ ~HasProp(d, "left") /\ HasProp(d, "conditions")
Operands(d) == Get(d, "conditions").items
FieldOf(d) == Get(d, "left").s
OperatorOf(d) == Get(d, "operator").s
ValueOf(d) == Get(d, "right")
Compiles(d) == parse(d).kind = "return"

ScalarOperators == {<<"e", "q">>, <<"n", "e">>, <<"g", "t">>, <<"l", "t">>, <<"g", "t", "e">>, <<"l", "t", "e">>, <<"l", "i", "k", "e">>}

\* the table of templates, for a field F and the text V of a value
Template(op, F, V) ==
    CASE op = <<"e", "q">> -> <<"@">> \o F \o <<":", "{">> \o V \o <<"}">>
      [] op = <<"n", "e">> -> <<"-", "@">> \o F \o <<":", "{">> \o V \o <<"}">>
      [] op = <<"g", "t">> -> <<"@">> \o F \o <<":", "[", "(">> \o V \o <<" ", "+", "i", "n", "f", "]">>
      [] op = <<"l", "t">> -> <<"@">> \o F \o <<":", "[", "-", "i", "n", "f", " ", "(">> \o V \o <<")", "]">>
      [] op = <<"g", "t", "e">> -> <<"@">> \o F \o <<":", "[">> \o V \o <<" ", "+", "i", "n", "f", "]">>
      [] op = <<"l", "t", "e">> -> <<"@">> \o F \o <<":", "[", "-", "i", "n", "f", " ">> \o V \o <<"]">>
      [] op = <<"l", "i", "k", "e">> -> <<"@">> \o F \o <<":", "/", ".", "*">> \o V \o <<".", "*", "/">>

\* the literal text of the values the inputs are built from
Literal(v) ==
    CASE v.t = "string" -> v.s
      [] v = Num(0) -> <<"0">>
      [] v = Num(7) -> <<"7">>
      [] v = Num(10) -> <<"1", "0">>
      [] v = Num(65) -> <<"6", "5">>
      [] v = Num(123) -> <<"1", "2", "3">>
      [] v = Num(0 - 45) -> <<"-", "4", "5">>
      [] v = Bool(TRUE) -> <<"t", "r", "u", "e">>
      [] v = Bool(FALSE) -> <<"f", "a", "l", "s", "e">>
      [] v = Null -> <<"n", "u", "l", "l">>

\* the combinators in upper case
UpperCased(c) ==
    CASE c \in {<<"a", "n", "d">>, <<"A", "N", "D">>, <<"a", "N", "d">>} -> <<"A", "N", "D">>
      [] c \in {<<"o", "r">>, <<"O", "r">>} -> <<"O", "R">>
      [] c = <<"x", "o", "r">> -> <<"X", "O", "R">>

RECURSIVE Joined(_, _)
\* the parts in order, with sep between two neighbours
Joined(parts, sep) ==
    IF parts = << >> THEN << >>
    ELSE IF Len(parts) = 1 THEN Head(parts)
    ELSE Head(parts) \o sep \o Joined(Tail(parts), sep)

InvalidConditionFormat == Throw("Error", <<"I", "n", "v", "a", "l", "i", "d", " ", "c", "o", "n", "d", "i", "t", "i", "o", "n", " ", "f", "o", "r", "m", "a", "t">>)
UnsupportedOperator(name) == Throw("Error", <<"U", "n", "s", "u", "p", "p", "o", "r", "t", "e", "d", " ", "o", "p", "e", "r", "a", "t", "o", "r", " ">> \o name)

(***************************************************************************)
(* C1. A leaf condition with one of the seven scalar operators compiles    *)
(* to exactly the operator's template, with the field and the text of the  *)
(* value substituted.                                                      *)
(***************************************************************************)
C1_LeafTemplates ==
    (Done /\ data \in Leaves /\ OperatorOf(data) \in ScalarOperators
          /\ ValueOf(data).t # "array")
    => ret = Return(Template(OperatorOf(data), FieldOf(data), StringOf(ValueOf(data))))

C1_Witness ==
    /\ Done
    /\ data = Condition(<<"a", "g", "e">>, <<"l", "t">>, Str(<<"1", "8">>))
    /\ ret = Return(<<"@", "a", "g", "e", ":", "[", "-", "i", "n", "f", " ", "(", "1", "8", ")", "]">>)

(***************************************************************************)
(* C2. A group with n >= 0 operands that compile is compiled to "(" + the  *)
(* compiled operands joined by " " + the upper-cased combinator + " " +    *)
(* ")": "()" for n = 0, "(" + parse(c1) + ")" for n = 1.                   *)
(***************************************************************************)
C2_GroupFormat ==
    (Done /\ IsGroup(data) /\ \A i \in DOMAIN Operands(data) : Compiles(Operands(data)[i]))
    => LET parts == [i \in DOMAIN Operands(data) |-> parse(Operands(data)[i]).val]
           sep == <<" ">> \o UpperCased(OperatorOf(data)) \o <<" ">>
       IN  /\ ret = Return(<<"(">> \o Joined(parts, sep) \o <<")">>)
           /\ Len(parts) = 0 => ret = Return(<<"(", ")">>)
           /\ Len(parts) = 1 => ret = Return(<<"(">> \o parts[1] \o <<")">>)

C2_Witness ==
    /\ Done
    /\ IsGroup(data)
    /\ Len(Operands(data)) = 2
    /\ OperatorOf(data) = <<"a", "N", "d">>
    /\ ret = Return(<<"(", "@", "a", ":", "{", "1", "}", " ", "A", "N", "D", " ", "@", "a", "g", "e", ":", "[", "-", "i", "n", "f", " ", "(", "6", "5", ")", "]", ")">>)

(***************************************************************************)
(* C3. Compilation is structural at every depth: a tree of groups over     *)
(* conditions that compile is compiled operand by operand, in order, each  *)
(* group with its own combinator and its own parentheses.                  *)
(***************************************************************************)
RECURSIVE WellFormed(_)
WellFormed(d) ==
    \/ d \in GoodAtoms
    \/ IsGroup(d) /\ \A i \in DOMAIN Operands(d) : WellFormed(Operands(d)[i])

RECURSIVE Compiled(_)
Compiled(d) ==
    IF d = Condition(<<"a">>, <<"e", "q">>, Str(<<"1">>)) THEN <<"@", "a", ":", "{", "1", "}">>
    ELSE IF d = Condition(<<"a", "g", "e">>, <<"l", "t">>, Num(65)) THEN <<"@", "a", "g", "e", ":", "[", "-", "i", "n", "f", " ", "(", "6", "5", ")", "]">>
    ELSE <<"(">>
         \o Joined([i \in DOMAIN Operands(d) |-> Compiled(Operands(d)[i])],
                   <<" ">> \o UpperCased(OperatorOf(d)) \o <<" ">>)
         \o <<")">>

C3_Nesting ==
    /\ (Done /\ WellFormed(data)) => ret = Return(Compiled(data))
    /\ (Done /\ IsGroup(data) /\ Len(Operands(data)) = 2
             /\ IsGroup(Operands(data)[2]) /\ Len(Operands(Operands(data)[2])) = 2
             /\ Compiles(data))
       => LET A == Operands(data)[1]
              B == Operands(Operands(data)[2])[1]
              C == Operands(Operands(data)[2])[2]
          IN  ret = Return(<<"(">> \o parse(A).val
                           \o <<" ">> \o UpperCased(OperatorOf(data)) \o <<" ", "(">>
                           \o parse(B).val
                           \o <<" ">> \o UpperCased(OperatorOf(Operands(data)[2])) \o <<" ">>
                           \o parse(C).val \o <<")", ")">>)

C3_Witness ==
    /\ Done
    /\ data = NestedCondition(
                <<Condition(<<"a">>, <<"e", "q">>, Str(<<"1">>)),
                  NestedCondition(<<Condition(<<"a", "g", "e">>, <<"l", "t">>, Num(65)),
                                    Condition(<<"a">>, <<"e", "q">>, Str(<<"1">>))>>, <<"a", "n", "d">>)>>,
                <<"O", "r">>)
    /\ ret = Return(<<"(", "@", "a", ":", "{", "1", "}", " ", "O", "R", " ", "(", "@", "a", "g", "e", ":", "[", "-", "i", "n", "f", " ", "(", "6", "5", ")", "]", " ", "A", "N", "D", " ", "@", "a", ":", "{", "1", "}", ")", ")">>)

(***************************************************************************)
(* C4. parse(null) and parse(undefined) return the match-all token "*".    *)
(***************************************************************************)
C4_NullMatchesAll ==
    (Done /\ data.t \in {"null", "undefined"}) => ret = Return(<<"*">>)

C4_Witness == Done /\ data = Undefined /\ ret = Return(<<"*">>)

(***************************************************************************)
(* C5. An object with a `result` property holding a condition node, a      *)
(* Where instance or not, is compiled to the compilation of that node.     *)
(***************************************************************************)
C5_ResultWrapper ==
    (Done /\ data.t \in {"object", "where"} /\ HasProp(data, "result")
          /\ ~HasProp(data, "left") /\ ~HasProp(data, "conditions"))
    => ret = parse(Get(data, "result"))

(***************************************************************************)
(* C6. A Where wrapper is compiled to the compilation of the node its      *)
(* build() returns.                                                        *)
(***************************************************************************)
C6_BuildInvoked ==
    (Done /\ data.t = "where") => ret = parse(Get(data, "build"))

(***************************************************************************)
(* C7, as stated. Every non-null input that is neither a wrapper, nor a    *)
(* leaf, nor a group makes parse fail with "Invalid condition format", at  *)
(* the top as well as inside a group.                                      *)
(***************************************************************************)
Unrecognised(d) ==
    /\ d.t \notin {"null", "undefined", "where"}
    /\ ~HasProp(d, "left")
    /\ ~HasProp(d, "conditions")
    /\ ~HasProp(d, "result")

RECURSIVE HoldsUnrecognised(_)
HoldsUnrecognised(d) ==
    \/ Unrecognised(d)
    \/ IsGroup(d) /\ \E i \in DOMAIN Operands(d) : HoldsUnrecognised(Operands(d)[i])

UnrecognisedObject(d) == d.t \in {"object", "array"} /\ Unrecognised(d)

RECURSIVE HoldsUnrecognisedObject(_)
HoldsUnrecognisedObject(d) ==
    \/ UnrecognisedObject(d)
    \/ IsGroup(d) /\ \E i \in DOMAIN Operands(d) : HoldsUnrecognisedObject(Operands(d)[i])

RECURSIVE UnrecognisedFailsFirst(_)
UnrecognisedFailsFirst(d) ==
    \/ UnrecognisedObject(d)
    \/ /\ IsGroup(d)
       /\ \E i \in DOMAIN Operands(d) :
            /\ UnrecognisedFailsFirst(Operands(d)[i])
            /\ \A j \in 1..(i - 1) : Compiles(Operands(d)[j])

UnsupportedLeaf(d) == IsLeaf(d) /\ OperatorOf(d) \notin SupportedOperators

RECURSIVE UnsupportedLeaves(_)
UnsupportedLeaves(d) ==
    IF UnsupportedLeaf(d) THEN {d}
    ELSE IF IsGroup(d)
         THEN UNION {UnsupportedLeaves(Operands(d)[i]) : i \in DOMAIN Operands(d)}
         ELSE {}

C8_AnyUnsupportedOperator ==
    (Done /\ UnsupportedLeaves(data) # {})
    => \E l \in UnsupportedLeaves(data) : ret = UnsupportedOperator(OperatorOf(l))

(***************************************************************************)
(* C8, amended. A leaf whose operator is outside the nine supported ones   *)
(* makes parse fail with "Unsupported operator <name>"; when it is an      *)
(* operand inside a group, at any depth, the whole parse fails, with that  *)
(* error when no operand before it fails first.                            *)
(***************************************************************************)
RECURSIVE FirstUnsupported(_)
\* the unsupported leaf that no failing operand precedes, if there is one
FirstUnsupported(d) ==
    IF UnsupportedLeaf(d) THEN {d}
    ELSE IF IsGroup(d)
         THEN UNION {FirstUnsupported(Operands(d)[i]) :
                        i \in {k \in DOMAIN Operands(d) :
                                 \A j \in 1..(k - 1) : Compiles(Operands(d)[j])}}
         ELSE {}

C8_UnsupportedOperator ==
    Done =>
      /\ UnsupportedLeaves(data) # {} => (ret.kind = "throw" /\ ret.val = << >>)
      /\ \A l \in FirstUnsupported(data) : ret = UnsupportedOperator(OperatorOf(l))

C8_Witness ==
    /\ Done
    /\ IsGroup(data)
    /\ \E i \in DOMAIN Operands(data) :
          /\ IsGroup(Operands(data)[i])
          /\ FirstUnsupported(Operands(data)[i]) # {}
          /\ i > 1
    /\ ret = UnsupportedOperator(<<"r", "e", "g", "e", "x">>)

(***************************************************************************)
(* C9. `in` with [v1..vn] compiles to the terms "@F:{vi}" in array order   *)
(* joined by " | ", `nin` to the terms "-@F:{vi}" joined by one space; the *)
(* empty array gives the empty string, one element a single term.          *)
(***************************************************************************)
C9_ArrayOperators ==
    (Done /\ data \in Leaves /\ OperatorOf(data) \in {<<"i", "n">>, <<"n", "i", "n">>}
          /\ ValueOf(data).t = "array")
    => LET isIn == OperatorOf(data) = <<"i", "n">>
           items == ValueOf(data).items
           terms == [i \in DOMAIN items |->
                        (IF isIn THEN <<"@">> ELSE <<"-", "@">>)
                        \o FieldOf(data) \o <<":", "{">> \o Literal(items[i]) \o <<"}">>]
       IN  /\ ret = Return(Joined(terms, IF isIn THEN <<" ", "|", " ">> ELSE <<" ">>))
           /\ Len(items) = 0 => ret = Return(<< >>)
           /\ Len(items) = 1 => ret = Return(terms[1])

C9_Witness ==
    /\ Done
    /\ data = Condition(<<"a", "g", "e">>, <<"n", "i", "n">>, Arr(<<Str(<<"a">>), Num(10)>>))
    /\ ret = Return(<<"-", "@", "a", "g", "e", ":", "{", "a", "}", " ", "-", "@", "a", "g", "e", ":", "{", "1", "0", "}">>)

(***************************************************************************)
(* C10. Values are rendered by plain string conversion without escaping:   *)
(* a number or boolean as its literal text, null as "null", the empty      *)
(* string as an empty token, and fields and values holding characters of   *)
(* the query syntax unchanged.                                             *)
(***************************************************************************)
C10_PlainRendering ==
    /\ (Done /\ data \in Leaves /\ OperatorOf(data) \in ScalarOperators
             /\ ValueOf(data).t # "array")
       => ret = Return(Template(OperatorOf(data), FieldOf(data), Literal(ValueOf(data))))
    /\ (Done /\ data = Condition(<<"a", "g", "e">>, <<"e", "q">>, Num(123)))
       => ret = Return(<<"@", "a", "g", "e", ":", "{", "1", "2", "3", "}">>)
    /\ (Done /\ data = Condition(<<"a", "g", "e">>, <<"e", "q">>, Bool(TRUE)))
       => ret = Return(<<"@", "a", "g", "e", ":", "{", "t", "r", "u", "e", "}">>)
    /\ (Done /\ data = Condition(<<"a", "g", "e">>, <<"e", "q">>, Null))
       => ret = Return(<<"@", "a", "g", "e", ":", "{", "n", "u", "l", "l", "}">>)
    /\ (Done /\ data = Condition(<<"a", "g", "e">>, <<"e", "q">>, Str(<< >>)))
       => ret = Return(<<"@", "a", "g", "e", ":", "{", "}">>)
    /\ (Done /\ data = Condition(<<"a", " ", "b", "[", "*", "]">>, <<"l", "i", "k", "e">>, Str(<<"t", "[", "0", "-", "9", "]", "+", ".", "*">>)))
       => ret = Return(<<"@", "a", " ", "b", "[", "*", "]", ":", "/", ".", "*", "t", "[", "0", "-", "9", "]", "+", ".", "*", ".", "*", "/">>)

C10_Witness ==
    /\ Done
    /\ data = Condition(<<"f", "-", "n", "_", "w", ".", "s">>, <<"e", "q">>, Str(<<"a", " ", "b", " ", "&", " ", "c", "!">>))
    /\ ret = Return(<<"@", "f", "-", "n", "_", "w", ".", "s", ":", "{", "a", " ", "b", " ", "&", " ", "c", "!", "}">>)

(***************************************************************************)
(* RedisQueryFactory (src/src/redis.query-factory.ts).  A query is a list  *)
(* of tokens, each a string.                                               *)
(***************************************************************************)
IsDigit(c) == \E i \in DOMAIN Digits : Digits[i] = c

\* the value of a string of digits
RECURSIVE DigitsToNat(_)
DigitsToNat(s) ==
    IF s = << >> THEN 0
    ELSE 10 * DigitsToNat(SubSeq(s, 1, Len(s) - 1))
            + (CHOOSE i \in DOMAIN Digits : Digits[i] = s[Len(s)]) - 1

\* an integer-like property name ("0", "7", "10"; not "", "01", "a1"); names of
\* ten digits and more are not modelled
IsArrayIndex(k) ==
    /\ Len(k) \in 1..9
    /\ \A i \in DOMAIN k : IsDigit(k[i])
    /\ Len(k) > 1 => k[1] # "0"

RECURSIVE Ascending(_)
\* the given properties with integer-like names, in ascending numeric order
Ascending(props) ==
    IF props = << >> THEN << >>
    ELSE LET least == CHOOSE i \in DOMAIN props :
                        \A j \in DOMAIN props :
                            DigitsToNat(props[i].k) <= DigitsToNat(props[j].k)
         IN  <<props[least]>>
             \o Ascending(SubSeq(props, 1, least - 1) \o SubSeq(props, least + 1, Len(props)))

IsIndexProp(p) == IsArrayIndex(p.k)
IsNameProp(p) == ~IsArrayIndex(p.k)

\* Object.entries(o): the integer-like names first, in ascending numeric order,
\* then the other names in insertion order
ObjectEntries(o) ==
    Ascending(SelectSeq(o.props, IsIndexProp)) \o SelectSeq(o.props, IsNameProp)

\* typeof v === "object"
TypeofObject(v) == v.t \in {"object", "array", "where", "null"}

\* order === -1 ? "DESC" : "ASC"
Direction(order) == IF order = Num(0 - 1) THEN <<"D", "E", "S", "C">> ELSE <<"A", "S", "C">>

RECURSIVE Flatten(_)
\* the concatenation of a list of token lists
Flatten(lists) ==
    IF lists = << >> THEN << >> ELSE Head(lists) \o Flatten(Tail(lists))

\* a where token that is the condition itself, not compiled
WhereToken_NotCompiled(where) ==
    IF ~IsFalsy(where) THEN Return(StringOf(where)) ELSE Return(<<"*">>)

\* the where token: parse(where) when where is truthy, "*" otherwise
WhereToken(where) ==
    IF ~IsFalsy(where) THEN parse(where) ELSE Return(<<"*">>)

\* an offset that is replaced by 0 only when it is undefined or null
OffsetOrZero_Nullish(offset) ==
    IF offset.t \in {"undefined", "null"} THEN Num(0) ELSE offset

\* offset || 0
OffsetOrZero(offset) == IF IsFalsy(offset) THEN Num(0) ELSE offset

createFindQuery(params) ==
    LET where == Get(params, "where")
        sort == Get(params, "sort")
        limit == Get(params, "limit")
        offset == Get(params, "offset")
        token == WhereToken(where)
        entries == ObjectEntries(sort)
        sortby == IF ~IsFalsy(sort) /\ TypeofObject(sort)
                  THEN Flatten([i \in DOMAIN entries |->
                          <<<<"S", "O", "R", "T", "B", "Y">>, entries[i].k, Direction(entries[i].v)>>])
                  ELSE << >>
        limitClause == IF limit.t # "undefined"
                       THEN <<<<"L", "I", "M", "I", "T">>, StringOf(OffsetOrZero(offset)), StringOf(limit)>>
                       ELSE << >>
    IN  IF token.kind = "throw" THEN token
        ELSE Return(<<<<"F", "T", ".", "S", "E", "A", "R", "C", "H">>, <<"i", "n", "d", "e", "x", "N", "a", "m", "e">>, token.val>> \o sortby \o limitClause)

\* a count query that takes over the limit clause of the find query
createCountQuery_AsFind(params) == createFindQuery(params)

createCountQuery(params) ==
    LET token == WhereToken(Get(params, "where"))
    IN  IF token.kind = "throw" THEN token
        ELSE Return(<<<<"F", "T", ".", "S", "E", "A", "R", "C", "H">>, <<"i", "n", "d", "e", "x", "N", "a", "m", "e">>, token.val, <<"L", "I", "M", "I", "T">>, <<"0">>, <<"0">>>>)

\* the tokens of an array of strings, ...keys
Spread(array) == [i \in DOMAIN array.items |-> array.items[i].s]

\* a remove query that is empty when there is no key
createRemoveQuery_NothingForNoKey(keys) ==
    IF keys.items = << >> THEN Return(<< >>) ELSE Return(<<<<"D", "E", "L">>>> \o Spread(keys))

createRemoveQuery(keys) == Return(<<<<"D", "E", "L">>>> \o Spread(keys))

\* a count of group fields that is a bare numeral
QuotedCount_Bare(n) == NumberToString(n)

\* `"${n}"`: the numeral between double quotes
QuotedCount(n) == <<"\"">> \o NumberToString(n) \o <<"\"">>

\* a test that takes an empty array for a grouping
HasGroupBy_AnyArray(groupBy) == ~IsFalsy(groupBy)

\* groupBy && groupBy.length > 0
HasGroupBy(groupBy) == ~IsFalsy(groupBy) /\ Len(groupBy.items) > 0

\* a COUNT clause that takes the option's value as its field
ReduceCount_WithField(count) ==
    IF ~IsFalsy(count)
    THEN <<<<"R", "E", "D", "U", "C", "E">>, <<"C", "O", "U", "N", "T">>, <<"1">>, StringOf(count), <<"A", "S">>, <<"c", "o", "u", "n", "t">>>>
    ELSE << >>

\* if (params.count) push REDUCE COUNT 0 AS count
ReduceCount(count) ==
    IF ~IsFalsy(count)
    THEN <<<<"R", "E", "D", "U", "C", "E">>, <<"C", "O", "U", "N", "T">>, <<"0">>, <<"A", "S">>, <<"c", "o", "u", "n", "t">>>>
    ELSE << >>

\* if (option) push REDUCE op 1 option AS alias
ReduceField(op, option, alias) ==
    IF ~IsFalsy(option)
    THEN <<<<"R", "E", "D", "U", "C", "E">>, op, <<"1">>, StringOf(option), <<"A", "S">>, alias>>
    ELSE << >>

\* reductions pushed in the order the options were given
Reductions_AsGiven(params) ==
    Flatten([i \in DOMAIN params.props |->
        LET p == params.props[i]
        IN  CASE p.k = "sum" -> ReduceField(<<"S", "U", "M">>, p.v, <<"t", "o", "t", "a", "l", "S", "u", "m">>)
              [] p.k = "count" -> ReduceCount(p.v)
              [] p.k = "average" -> ReduceField(<<"A", "V", "G">>, p.v, <<"a", "v", "e", "r", "a", "g", "e">>)
              [] p.k = "min" -> ReduceField(<<"M", "I", "N">>, p.v, <<"m", "i", "n">>)
              [] p.k = "max" -> ReduceField(<<"M", "A", "X">>, p.v, <<"m", "a", "x">>)
              [] OTHER -> << >>])

\* the REDUCE clauses, in the order of the if statements
Reductions(params) ==
    ReduceField(<<"S", "U", "M">>, Get(params, "sum"), <<"t", "o", "t", "a", "l", "S", "u", "m">>)
        \o ReduceCount(Get(params, "count"))
        \o ReduceField(<<"A", "V", "G">>, Get(params, "average"), <<"a", "v", "e", "r", "a", "g", "e">>)
        \o ReduceField(<<"M", "I", "N">>, Get(params, "min"), <<"m", "i", "n">>)
        \o ReduceField(<<"M", "A", "X">>, Get(params, "max"), <<"m", "a", "x">>)

createAggregationQuery(params) ==
    LET token == WhereToken(Get(params, "where"))
        groupBy == Get(params, "groupBy")
        sort == Get(params, "sort")
        grouping == IF HasGroupBy(groupBy)
                    THEN <<<<"G", "R", "O", "U", "P", "B", "Y">>, QuotedCount(Len(groupBy.items))>>
                            \o Spread(groupBy) \o Reductions(params)
                    ELSE << >>
        entries == ObjectEntries(sort)
        sortby == IF ~IsFalsy(sort)
                  THEN Flatten([i \in DOMAIN entries |->
                          <<<<"S", "O", "R", "T", "B", "Y">>, <<"1">>, entries[i].k, Direction(entries[i].v)>>])
                  ELSE << >>
    IN  IF token.kind = "throw" THEN token
        ELSE Return(<<<<"F", "T", ".", "A", "G", "G", "R", "E", "G", "A", "T", "E">>, <<"i", "n", "d", "e", "x", "N", "a", "m", "e">>, token.val>> \o grouping \o sortby)

(***************************************************************************)
(* The inputs of the query factory.                                        *)
(***************************************************************************)
\* marks an option the caller leaves out of the params object
Absent == JsValue("absent", << >>, 0, FALSE, << >>, << >>)

\* the property k with value v, or nothing when the caller leaves it out
Opt(k, v) == IF v = Absent THEN << >> ELSE <<Prop(k, v)>>

RECURSIVE Reverse(_)
Reverse(s) == IF s = << >> THEN << >> ELSE Reverse(Tail(s)) \o <<Head(s)>>

\* field names of a sort object, two of them integer-like
SortFields == {<<"n", "a", "m", "e">>, <<"a", "g", "e">>, <<"2">>, <<"1", "0">>}
SortOrders == {Num(1), Num(0 - 1), Num(0)}

RECURSIVE SortEntries(_)
\* the lists of n sort entries with distinct field names
SortEntries(n) ==
    IF n = 0 THEN {<< >>}
    ELSE {Append(q, Prop(f, o)) :
            q \in SortEntries(n - 1), f \in SortFields, o \in SortOrders}

Distinct(entries) ==
    \A i, j \in DOMAIN entries : i # j => entries[i].k # entries[j].k

SortObjects ==
    {Obj(entries) :
        entries \in {q \in UNION {SortEntries(n) : n \in 0..MaxSortFields} : Distinct(q)}}
    \cup {Obj(<<Prop(<<"f", "i", "e", "l", "d", "-", "n", "a", "m", "e", "_", "w", "i", "t", "h", ".", "s", "p", "e", "c", "i", "a", "l">>, Str(<<"-", "1">>))>>),
          Obj(<<Prop(<<"b">>, Str(<<"D", "E", "S", "C">>)), Prop(<<"1">>, Num(0 - 1))>>)}

FactoryWheres ==
    {Absent, Null,
     Condition(<<"s", "t", "a", "t", "u", "s">>, <<"e", "q">>, Str(<<"a", "c", "t", "i", "v", "e">>)),
     NestedCondition(<<Condition(<<"a">>, <<"e", "q">>, Str(<<"1">>)),
                       Condition(<<"a", "g", "e">>, <<"l", "t">>, Num(65))>>, <<"a", "n", "d">>),
     Condition(<<"a">>, <<"r", "e", "g", "e", "x">>, Str(<<"1">>)),
     WhereObj(<<Prop("result", Condition(<<"w">>, <<"n", "e">>, Bool(TRUE))),
                Prop("build", Condition(<<"w">>, <<"n", "e">>, Bool(TRUE)))>>)}

Limits == {Absent, Undefined, Num(0), Num(10)}
Offsets == {Absent, Null, Num(0), Num(20), Num(0 - 5), NaN}

\* one find call: every option set together
FindOptions(w, s, l, o) ==
    Obj(Opt("where", w) \o Opt("sort", s) \o Opt("limit", l) \o Opt("offset", o))

\* every sort object with few other options, and every other option with few
\* sort objects
FindParams ==
    {FindOptions(w, s, l, Absent) :
        w \in {Absent, Condition(<<"s", "t", "a", "t", "u", "s">>, <<"e", "q">>, Str(<<"a", "c", "t", "i", "v", "e">>))},
        s \in SortObjects, l \in {Absent, Num(10)}}
    \cup {FindOptions(w, s, l, o) :
            w \in FactoryWheres,
            s \in {Absent, Undefined, Null, Str(<<"n", "a", "m", "e">>),
                   Obj(<<Prop(<<"n", "a", "m", "e">>, Num(1))>>),
                   Obj(<<Prop(<<"n", "a", "m", "e">>, Num(1)), Prop(<<"a", "g", "e">>, Num(0 - 1))>>)},
            l \in Limits, o \in Offsets}

CountParams ==
    {FindOptions(w, s, l, o) :
        w \in FactoryWheres,
        s \in {Absent, Obj(<<Prop(<<"n", "a", "m", "e">>, Num(1))>>)},
        l \in {Absent, Num(0), Num(10)}, o \in {Absent, Num(20)}}

KeyNames == {Str(<<"u", "s", "e", "r", ":", "1">>), Str(<<"k", " ", "2">>), Str(<< >>)}
Keys == {Arr(items) : items \in SeqsUpTo(KeyNames, MaxArrayLen)}

GroupFields == {Str(<<"c", "a", "t", "e", "g", "o", "r", "y">>), Str(<<"b", "r", "a", "n", "d">>)}
GroupBys ==
    {Absent, Null, Arr(<<Str(<< >>)>>)}
    \cup {Arr(items) : items \in SeqsUpTo(GroupFields, MaxArrayLen)}

\* the reduction options of one call
ReductionOptions ==
    {Opt("count", c) \o Opt("sum", s) \o Opt("average", a) \o Opt("min", mn) \o Opt("max", mx) :
        c \in {Absent, Str(<<"f", "i", "e", "l", "d">>), Str(<< >>)},
        s \in {Absent, Str(<<"p", "r", "i", "c", "e">>), Str(<< >>)},
        a \in {Absent, Str(<<"r", "a", "t", "i", "n", "g">>)},
        mn \in {Absent, Str(<<"l", "o", "w">>)},
        mx \in {Absent, Str(<<"h", "i", "g", "h">>)}}

AggregationWheres ==
    {Absent, Condition(<<"s", "t", "a", "t", "u", "s">>, <<"e", "q">>, Str(<<"a", "c", "t", "i", "v", "e">>)),
     Condition(<<"a">>, <<"r", "e", "g", "e", "x">>, Str(<<"1">>))}

\* every choice of reductions and groupings, the options given in either order
ReducingParams ==
    UNION {{Obj(props), Obj(Reverse(props))} :
        props \in {Opt("where", w) \o Opt("groupBy", g) \o r \o Opt("sort", s) :
                    w \in AggregationWheres, g \in GroupBys, r \in ReductionOptions,
                    s \in {Absent, Obj(<<Prop(<<"p", "r", "i", "c", "e">>, Num(0 - 1))>>)}}}

\* every sort object, with and without a grouping
SortingParams ==
    {Obj(Opt("groupBy", g) \o r \o Opt("sort", s)) :
        g \in {Absent, Arr(<<Str(<<"c", "a", "t", "e", "g", "o", "r", "y">>)>>)},
        r \in {<< >>, Opt("sum", Str(<<"p", "r", "i", "c", "e">>)) \o Opt("count", Str(<<"f", "i", "e", "l", "d">>))},
        s \in SortObjects \cup {Undefined, Null}}

AggregationParams == ReducingParams \cup SortingParams

(***************************************************************************)
(* The calls of the query factory: a caller invokes one method with one    *)
(* argument and gets its result.                                           *)
(***************************************************************************)
FactoryInit ==
    /\ method \in {"createFindQuery", "createCountQuery",
                   "createRemoveQuery", "createAggregationQuery"}
    /\ data \in CASE method = "createFindQuery" -> FindParams
                  [] method = "createCountQuery" -> CountParams
                  [] method = "createRemoveQuery" -> Keys
                  [] OTHER -> AggregationParams
    /\ pc = "call"
    /\ ret = NoResult
    /\ queries = << >>
    /\ store = << >>
    /\ hist = << >>
    /\ last = << >>

CreateFindQuery ==
    /\ method = "createFindQuery"
    /\ pc = "call"
    /\ ret' = createFindQuery(data)
    /\ pc' = "done"
    /\ UNCHANGED <<method, data, queries, redis>>

CreateCountQuery ==
    /\ method = "createCountQuery"
    /\ pc = "call"
    /\ ret' = createCountQuery(data)
    /\ pc' = "done"
    /\ UNCHANGED <<method, data, queries, redis>>

CreateRemoveQuery ==
    /\ method = "createRemoveQuery"
    /\ pc = "call"
    /\ ret' = createRemoveQuery(data)
    /\ pc' = "done"
    /\ UNCHANGED <<method, data, queries, redis>>

CreateAggregationQuery ==
    /\ method = "createAggregationQuery"
    /\ pc = "call"
    /\ ret' = createAggregationQuery(data)
    /\ pc' = "done"
    /\ UNCHANGED <<method, data, queries, redis>>

FactoryNext ==
    \/ CreateFindQuery
    \/ CreateCountQuery
    \/ CreateRemoveQuery
    \/ CreateAggregationQuery

FactorySpec == FactoryInit /\ [][FactoryNext]_vars

(***************************************************************************)
(* What the claims about the query factory speak of.                       *)
(***************************************************************************)
Called(m) == pc = "done" /\ method = m
Returned(m) == Called(m) /\ ret.kind = "return"

\* the where token a claim expects: "*" for no condition, else the compiled one
ExpectedWhere(params) ==
    LET where == Get(params, "where")
    IN  IF where.t \in {"undefined", "null"} THEN Return(<<"*">>) ELSE parse(where)

\* the last n tokens of a query
LastTokens(query, n) == SubSeq(query, Len(query) - n + 1, Len(query))

HasToken(query, token) == \E i \in DOMAIN query : query[i] = token

\* the sort entries of the params in insertion order
InsertionOrder(params) == Get(params, "sort").props

\* the direction a claim expects for a sort value
ExpectedDirection(order) ==
    IF order.t = "number" /\ ~order.b /\ order.n = 0 - 1 THEN <<"D", "E", "S", "C">> ELSE <<"A", "S", "C">>

(***************************************************************************)
(* C11. createFindQuery returns a token list that starts with FT.SEARCH,   *)
(* indexName, Q, where Q is parse(where) when where is present and "*"     *)
(* when it is absent or null (a condition parse rejects makes the call     *)
(* throw what parse throws); with empty params the result is exactly       *)
(* FT.SEARCH, indexName, "*".                                              *)
(***************************************************************************)
C11_FindPrefix ==
    Called("createFindQuery")
    => LET Q == ExpectedWhere(data)
       IN  /\ Q.kind = "throw" => ret = Q
           /\ Q.kind = "return" =>
                /\ ret.kind = "return"
                /\ Len(ret.val) >= 3
                /\ SubSeq(ret.val, 1, 3) = <<<<"F", "T", ".", "S", "E", "A", "R", "C", "H">>, <<"i", "n", "d", "e", "x", "N", "a", "m", "e">>, Q.val>>
           /\ data = Obj(<< >>) =>
                ret = Return(<<<<"F", "T", ".", "S", "E", "A", "R", "C", "H">>, <<"i", "n", "d", "e", "x", "N", "a", "m", "e">>, <<"*">>>>)

C11_Witness ==
    /\ Returned("createFindQuery")
    /\ Get(data, "where") = Condition(<<"s", "t", "a", "t", "u", "s">>, <<"e", "q">>, Str(<<"a", "c", "t", "i", "v", "e">>))
    /\ Get(data, "limit") = Num(10)
    /\ SubSeq(ret.val, 1, 3) = <<<<"F", "T", ".", "S", "E", "A", "R", "C", "H">>, <<"i", "n", "d", "e", "x", "N", "a", "m", "e">>, <<"@", "s", "t", "a", "t", "u", "s", ":", "{", "a", "c", "t", "i", "v", "e", "}">>>>
    /\ Len(ret.val) > 3

(***************************************************************************)
(* C12. createFindQuery emits one clause SORTBY, field, direction per      *)
(* entry of params.sort, in the insertion order of the sort fields, with   *)
(* DESC exactly when the value is -1 and ASC otherwise, after the where    *)
(* token and before any LIMIT clause.                                      *)
(***************************************************************************)
C12_SortInsertionOrder ==
    (Returned("createFindQuery") /\ Get(data, "sort").t = "object")
    => LET entries == InsertionOrder(data)
           clauses == Flatten([i \in DOMAIN entries |->
                        <<<<"S", "O", "R", "T", "B", "Y">>, entries[i].k, ExpectedDirection(entries[i].v)>>])
           rest == SubSeq(ret.val, 4 + Len(clauses), Len(ret.val))
       IN  /\ Len(ret.val) >= 3 + Len(clauses)
           /\ SubSeq(ret.val, 4, 3 + Len(clauses)) = clauses
           /\ rest = << >> \/ (Len(rest) = 3 /\ rest[1] = <<"L", "I", "M", "I", "T">>)

(***************************************************************************)
(* C13 as stated. createFindQuery appends LIMIT, str(offset) with 0 for an *)
(* offset that is not given, str(limit) as the last three tokens exactly   *)
(* when limit is defined, zero included; no LIMIT clause otherwise.        *)
(***************************************************************************)
C13_OffsetAsGiven ==
    Returned("createFindQuery")
    => LET limit == Get(data, "limit")
           offset == Get(data, "offset")
           given == offset.t \notin {"undefined", "null"}
       IN  IF limit.t # "undefined"
           THEN LastTokens(ret.val, 3)
                   = <<<<"L", "I", "M", "I", "T">>, IF given THEN StringOf(offset) ELSE <<"0">>, StringOf(limit)>>
           ELSE ~HasToken(ret.val, <<"L", "I", "M", "I", "T">>)

(***************************************************************************)
(* C13. createFindQuery appends LIMIT, str(offset), str(limit) as the last *)
(* three tokens exactly when limit is defined, zero included, where an     *)
(* offset that is not given, null or NaN is rendered as "0"; when limit is *)
(* undefined no LIMIT clause is emitted even if offset is set.             *)
(***************************************************************************)
C13_LimitClause ==
    Returned("createFindQuery")
    => LET limit == Get(data, "limit")
           offset == Get(data, "offset")
           zero == offset.t \in {"undefined", "null"} \/ offset = NaN
       IN  IF limit.t # "undefined"
           THEN LastTokens(ret.val, 3)
                   = <<<<"L", "I", "M", "I", "T">>, IF zero THEN <<"0">> ELSE NumberToString(offset.n),
                       NumberToString(limit.n)>>
           ELSE ~HasToken(ret.val, <<"L", "I", "M", "I", "T">>)

C13_Witness ==
    /\ Returned("createFindQuery")
    /\ Get(data, "limit") = Num(0)
    /\ Get(data, "offset") = NaN
    /\ LastTokens(ret.val, 3) = <<<<"L", "I", "M", "I", "T">>, <<"0">>, <<"0">>>>

(***************************************************************************)
(* C14. createCountQuery returns exactly FT.SEARCH, indexName, Q, LIMIT,   *)
(* 0, 0 with Q as in createFindQuery, whatever sort, limit and offset the  *)
(* params hold: the result of createFindQuery({where, limit: 0}).          *)
(***************************************************************************)
C14_CountQuery ==
    Called("createCountQuery")
    => LET Q == ExpectedWhere(data)
           find == createFindQuery(Obj(<<Prop("where", Get(data, "where")),
                                         Prop("limit", Num(0))>>))
       IN  /\ Q.kind = "throw" => ret = Q
           /\ Q.kind = "return" =>
                ret = Return(<<<<"F", "T", ".", "S", "E", "A", "R", "C", "H">>, <<"i", "n", "d", "e", "x", "N", "a", "m", "e">>, Q.val,
                               <<"L", "I", "M", "I", "T">>, <<"0">>, <<"0">>>>)
           /\ ret = find

C14_Witness ==
    /\ Returned("createCountQuery")
    /\ HasProp(data, "sort")
    /\ Get(data, "limit") = Num(10)
    /\ Get(data, "offset") = Num(20)
    /\ ret.val = <<<<"F", "T", ".", "S", "E", "A", "R", "C", "H">>, <<"i", "n", "d", "e", "x", "N", "a", "m", "e">>, <<"@", "s", "t", "a", "t", "u", "s", ":", "{", "a", "c", "t", "i", "v", "e", "}">>,
                   <<"L", "I", "M", "I", "T">>, <<"0">>, <<"0">>>>

(***************************************************************************)
(* C15. createRemoveQuery(keys) returns DEL followed by the keys unchanged *)
(* and in the given order; an empty key list gives exactly DEL.            *)
(***************************************************************************)
C15_RemoveQuery ==
    Called("createRemoveQuery")
    => /\ ret.kind = "return"
       /\ Len(ret.val) = 1 + Len(data.items)
       /\ ret.val[1] = <<"D", "E", "L">>
       /\ \A i \in DOMAIN data.items : ret.val[i + 1] = data.items[i].s
       /\ data.items = << >> => ret.val = <<<<"D", "E", "L">>>>

C15_Witness ==
    /\ Returned("createRemoveQuery")
    /\ data = Arr(<< >>)
    /\ ret.val = <<<<"D", "E", "L">>>>

(***************************************************************************)
(* What the claims about createAggregationQuery speak of.                  *)
(***************************************************************************)
\* groupBy is a non-empty array
Grouped(params) ==
    Get(params, "groupBy").t = "array" /\ Len(Get(params, "groupBy").items) > 0

GroupFieldsOf(params) ==
    [i \in DOMAIN Get(params, "groupBy").items |-> Get(params, "groupBy").items[i].s]

\* a reduction option holds a field name
Populated(params, option) ==
    Get(params, option).t = "string" /\ Get(params, option).s # << >>

\* the positions of the REDUCE tokens of a query
ReducePositions(query) == {i \in DOMAIN query : query[i] = <<"R", "E", "D", "U", "C", "E">>}

RECURSIVE ReduceOperators(_)
\* the operators of the REDUCE clauses of a query, in the order of the query
ReduceOperators(query) ==
    IF Len(query) < 2 THEN << >>
    ELSE IF Head(query) = <<"R", "E", "D", "U", "C", "E">>
         THEN <<query[2]>> \o ReduceOperators(Tail(query))
         ELSE ReduceOperators(Tail(query))

\* the reductions: option, operator and alias, in the fixed order
ReductionTable ==
    <<[option |-> "sum", op |-> <<"S", "U", "M">>, alias |-> <<"t", "o", "t", "a", "l", "S", "u", "m">>],
      [option |-> "count", op |-> <<"C", "O", "U", "N", "T">>, alias |-> <<"c", "o", "u", "n", "t">>],
      [option |-> "average", op |-> <<"A", "V", "G">>, alias |-> <<"a", "v", "e", "r", "a", "g", "e">>],
      [option |-> "min", op |-> <<"M", "I", "N">>, alias |-> <<"m", "i", "n">>],
      [option |-> "max", op |-> <<"M", "A", "X">>, alias |-> <<"m", "a", "x">>]>>

\* the position of an option among the properties of the params, 0 when left out
PositionOf(params, option) ==
    IF HasProp(params, option)
    THEN CHOOSE i \in DOMAIN params.props : params.props[i].k = option
    ELSE 0

(***************************************************************************)
(* C16. createAggregationQuery emits a GROUPBY clause exactly when groupBy *)
(* is a non-empty array: GROUPBY, the number of group fields as a numeral  *)
(* between double quotes, then the group fields in order, directly after   *)
(* the where token.                                                        *)
(***************************************************************************)
C16_GroupByClause ==
    Returned("createAggregationQuery")
    => LET fields == GroupFieldsOf(data)
       IN  IF Grouped(data)
           THEN /\ Len(ret.val) >= 5 + Len(fields)
                /\ SubSeq(ret.val, 4, 5 + Len(fields))
                     = <<<<"G", "R", "O", "U", "P", "B", "Y">>, <<"\"">> \o NatToString(Len(fields)) \o <<"\"">>>> \o fields
                /\ Cardinality({i \in DOMAIN ret.val : ret.val[i] = <<"G", "R", "O", "U", "P", "B", "Y">>}) = 1
           ELSE ~HasToken(ret.val, <<"G", "R", "O", "U", "P", "B", "Y">>)

C16_Witness ==
    /\ Returned("createAggregationQuery")
    /\ Get(data, "groupBy") = Arr(<<Str(<<"c", "a", "t", "e", "g", "o", "r", "y">>), Str(<<"b", "r", "a", "n", "d">>)>>)
    /\ SubSeq(ret.val, 3, 7)
         = <<<<"@", "s", "t", "a", "t", "u", "s", ":", "{", "a", "c", "t", "i", "v", "e", "}">>, <<"G", "R", "O", "U", "P", "B", "Y">>, <<"\"", "2", "\"">>, <<"c", "a", "t", "e", "g", "o", "r", "y">>, <<"b", "r", "a", "n", "d">>>>

(***************************************************************************)
(* C17. createAggregationQuery never emits a REDUCE token without a        *)
(* GROUPBY clause before it: when groupBy is absent or empty the query     *)
(* holds no GROUPBY and no REDUCE, whatever the reduction options are.     *)
(***************************************************************************)
C17_NoReduceWithoutGroupBy ==
    Returned("createAggregationQuery")
    => /\ \A i \in ReducePositions(ret.val) :
             \E j \in 1..(i - 1) : ret.val[j] = <<"G", "R", "O", "U", "P", "B", "Y">>
       /\ ~Grouped(data) =>
             /\ ~HasToken(ret.val, <<"G", "R", "O", "U", "P", "B", "Y">>)
             /\ ~HasToken(ret.val, <<"R", "E", "D", "U", "C", "E">>)

C17_Witness ==
    /\ Returned("createAggregationQuery")
    /\ Get(data, "groupBy") = Arr(<< >>)
    /\ Populated(data, "count")
    /\ Populated(data, "sum")
    /\ ret.val = <<<<"F", "T", ".", "A", "G", "G", "R", "E", "G", "A", "T", "E">>, <<"i", "n", "d", "e", "x", "N", "a", "m", "e">>, <<"*">>>>

(***************************************************************************)
(* C18. When a GROUPBY clause is emitted, createAggregationQuery emits one *)
(* REDUCE clause per reduction option that holds a field name and none for *)
(* the others, in the fixed order SUM, COUNT, AVG, MIN, MAX, whatever the  *)
(* order of the options in the params.                                     *)
(***************************************************************************)
C18_ReduceOrder ==
    (Returned("createAggregationQuery") /\ Grouped(data))
    => LET IsPopulated(row) == Populated(data, row.option)
           rows == SelectSeq(ReductionTable, IsPopulated)
       IN  ReduceOperators(ret.val) = [i \in DOMAIN rows |-> rows[i].op]

C18_Witness ==
    /\ Returned("createAggregationQuery")
    /\ Grouped(data)
    /\ PositionOf(data, "max") > 0
    /\ PositionOf(data, "max") < PositionOf(data, "min")
    /\ PositionOf(data, "min") < PositionOf(data, "average")
    /\ PositionOf(data, "average") < PositionOf(data, "sum")
    /\ PositionOf(data, "sum") < PositionOf(data, "count")
    /\ ReduceOperators(ret.val) = <<<<"S", "U", "M">>, <<"C", "O", "U", "N", "T">>, <<"A", "V", "G">>, <<"M", "I", "N">>, <<"M", "A", "X">>>>

(***************************************************************************)
(* C19. Every REDUCE clause of createAggregationQuery is REDUCE, OP,       *)
(* operand count, [field], AS, alias: COUNT has the operand count 0 and no *)
(* field (the value of params.count is not emitted), SUM, AVG, MIN and MAX *)
(* have the operand count 1 and the field of their option, and the aliases *)
(* are totalSum, count, average, min and max.                              *)
(***************************************************************************)
C19_ReduceShape ==
    Returned("createAggregationQuery")
    => \A i \in ReducePositions(ret.val) :
          /\ i + 1 <= Len(ret.val)
          /\ \E r \in DOMAIN ReductionTable :
                LET row == ReductionTable[r]
                    clause == IF row.option = "count"
                              THEN <<<<"R", "E", "D", "U", "C", "E">>, row.op, <<"0">>, <<"A", "S">>, row.alias>>
                              ELSE <<<<"R", "E", "D", "U", "C", "E">>, row.op, <<"1">>, Get(data, row.option).s,
                                     <<"A", "S">>, row.alias>>
                    next == i + Len(clause)
                IN  /\ row.op = ret.val[i + 1]
                    /\ next - 1 <= Len(ret.val)
                    /\ SubSeq(ret.val, i, next - 1) = clause
                    /\ next <= Len(ret.val) => ret.val[next] \in {<<"R", "E", "D", "U", "C", "E">>, <<"S", "O", "R", "T", "B", "Y">>}

C19_Witness ==
    /\ Returned("createAggregationQuery")
    /\ Get(data, "groupBy") = Arr(<<Str(<<"c", "a", "t", "e", "g", "o", "r", "y">>)>>)
    /\ Get(data, "count") = Str(<<"f", "i", "e", "l", "d">>)
    /\ Get(data, "sum") = Str(<<"p", "r", "i", "c", "e">>)
    /\ ret.val = <<<<"F", "T", ".", "A", "G", "G", "R", "E", "G", "A", "T", "E">>, <<"i", "n", "d", "e", "x", "N", "a", "m", "e">>, <<"*">>,
                   <<"G", "R", "O", "U", "P", "B", "Y">>, <<"\"", "1", "\"">>, <<"c", "a", "t", "e", "g", "o", "r", "y">>,
                   <<"R", "E", "D", "U", "C", "E">>, <<"S", "U", "M">>, <<"1">>, <<"p", "r", "i", "c", "e">>, <<"A", "S">>, <<"t", "o", "t", "a", "l", "S", "u", "m">>,
                   <<"R", "E", "D", "U", "C", "E">>, <<"C", "O", "U", "N", "T">>, <<"0">>, <<"A", "S">>, <<"c", "o", "u", "n", "t">>>>

(***************************************************************************)
(* C20. createAggregationQuery emits, for each entry of params.sort in     *)
(* insertion order, the clause SORTBY, 1, field, direction (DESC exactly   *)
(* when the value is -1, else ASC), after the GROUPBY and REDUCE clauses,  *)
(* with or without a GROUPBY clause.                                       *)
(***************************************************************************)
C20_AggregationSortInsertionOrder ==
    (Returned("createAggregationQuery") /\ Get(data, "sort").t = "object")
    => LET entries == InsertionOrder(data)
           clauses == Flatten([i \in DOMAIN entries |->
                        <<<<"S", "O", "R", "T", "B", "Y">>, <<"1">>, entries[i].k, ExpectedDirection(entries[i].v)>>])
       IN  /\ Len(ret.val) >= 3 + Len(clauses)
           /\ LastTokens(ret.val, Len(clauses)) = clauses
           /\ ~HasToken(SubSeq(ret.val, 1, Len(ret.val) - Len(clauses)), <<"S", "O", "R", "T", "B", "Y">>)


(***************************************************************************)
(* RedisUtils.buildRedisUrl (src/src/redis.utils.ts).  A RedisConfig is a  *)
(* record; hosts and ports are arrays of strings.  The local `ports` is    *)
(* the array of the config itself when that array is not empty.            *)
(***************************************************************************)
RedisConfig(hosts, ports, iana, user, password, database) ==
    [hosts |-> hosts, ports |-> ports, iana |-> iana, user |-> user,
     password |-> password, database |-> database]

RECURSIVE PushDefaultPort(_, _, _)
\* while (hosts.length - ports.length > 0) ports.push(defaultPort)
PushDefaultPort(hosts, ports, defaultPort) ==
    IF Len(hosts) - Len(ports) > 0
    THEN PushDefaultPort(hosts, Append(ports, defaultPort), defaultPort)
    ELSE ports

\* the URL the call returns and the config as the call leaves it
buildRedisUrl(config) ==
    LET scheme == IF ~IsFalsy(config.iana) THEN <<"r", "e", "d", "i", "s", "s", ":", "/", "/">> ELSE <<"r", "e", "d", "i", "s", ":", "/", "/">>
        credentials ==
            IF ~IsFalsy(config.user) /\ ~IsFalsy(config.password)
            THEN StringOf(config.user) \o <<":">> \o StringOf(config.password) \o <<"@">>
            ELSE << >>
        hosts == IF Len(config.hosts) # 0 THEN config.hosts ELSE <<<<"l", "o", "c", "a", "l", "h", "o", "s", "t">>>>
        own == Len(config.ports) # 0
        ports == PushDefaultPort(hosts,
                    IF own THEN config.ports ELSE <<<<"6", "3", "7", "9">>>>,
                    IF own THEN config.ports[1] ELSE <<"6", "3", "7", "9">>)
        hostsAndPorts == [i \in DOMAIN hosts |-> hosts[i] \o <<":">> \o ports[i]]
        database == IF config.database.t \notin {"null", "undefined"}
                    THEN <<"/">> \o StringOf(config.database)
                    ELSE << >>
    IN  [url |-> scheme \o credentials \o join(hostsAndPorts, <<",">>) \o database,
         config |-> [config EXCEPT !.ports = IF own THEN ports ELSE @]]

HostNames == {<<"h", "o", "s", "t", "1">>, <<"r", "e", "d", "i", "s", "-", "2", ".", "e", "x", "a", "m", "p", "l", "e", ".", "c", "o", "m">>}
PortNumbers == {<<"6", "3", "7", "9">>, <<"6", "3", "8", "0">>}

Configs ==
    {RedisConfig(hosts, ports, iana, user, password, database) :
        hosts \in SeqsUpTo(HostNames, MaxArrayLen),
        ports \in SeqsUpTo(PortNumbers, MaxArrayLen),
        iana \in {Undefined, Bool(TRUE)},
        user \in {Undefined, Str(<<"u", "s", "e", "r">>)},
        password \in {Undefined, Str(<<"p", "a", "s", "s">>)},
        database \in {Undefined, Num(0), Str(<<"1">>)}}

\* a caller holds a config and is about to build the URL from it
UrlInit ==
    /\ method = "buildRedisUrl"
    /\ data \in Configs
    /\ hist = data
    /\ pc = "call"
    /\ ret = NoResult
    /\ queries = << >>
    /\ store = << >>
    /\ last = << >>

BuildRedisUrl ==
    /\ method = "buildRedisUrl"
    /\ pc = "call"
    /\ ret' = Return(buildRedisUrl(data).url)
    /\ data' = buildRedisUrl(data).config
    /\ pc' = "done"
    /\ UNCHANGED <<method, queries, store, hist, last>>

UrlNext == BuildRedisUrl

UrlSpec == UrlInit /\ [][UrlNext]_vars

(***************************************************************************)
(* C30. RedisUtils.buildRedisUrl does not modify the config it is given:   *)
(* config.hosts and config.ports hold the same elements after the call as  *)
(* before, also when there are more hosts than ports.                      *)
(***************************************************************************)
C30_ConfigUnchanged ==
    (pc = "done" /\ method = "buildRedisUrl")
    => /\ data.hosts = hist.hosts
       /\ data.ports = hist.ports

(***************************************************************************)
(* The Redis database the client talks to: `store` maps each existing key  *)
(* to what it holds, a string (text, with the seconds it still lives, 0    *)
(* for no expiry), a hash (fields) or a list (items).                      *)
(***************************************************************************)
\* the largest number of items of a stored list
MaxListLen == 3

StringEntry(text, ttl) ==
    [type |-> "string", text |-> text, ttl |-> ttl, fields |-> << >>, items |-> << >>]
HashEntry(fields) ==
    [type |-> "hash", text |-> << >>, ttl |-> 0, fields |-> fields, items |-> << >>]
ListEntry(items) ==
    [type |-> "list", text |-> << >>, ttl |-> 0, fields |-> << >>, items |-> items]

EmptyStore == << >>

Exists(st, key) == key \in DOMAIN st

\* the database with `key` holding `entry`
Put(st, key, entry) ==
    [k \in DOMAIN st \cup {key} |-> IF k = key THEN entry ELSE st[k]]

\* the database without the keys in `keys`
Remove(st, keys) == [k \in DOMAIN st \ keys |-> st[k]]

\* the reply of a command: a value, or an error the client rejects with
Reply(val) == [kind |-> "reply", val |-> val]
ErrorReply == [kind |-> "error", val |-> Null]

(***************************************************************************)
(* RedisListCollection (src/src/redis.list.collection.ts).  Every method   *)
(* sends one command per step of its loop and turns a rejection into a     *)
(* thrown CollectionError.                                                 *)
(***************************************************************************)
CollectionError == Throw("CollectionError", << >>)

ItemsOf(st, name) == IF Exists(st, name) THEN st[name].items ELSE << >>

\* LLEN name
Llen(st, name) == Len(ItemsOf(st, name))

\* RPUSH name items: an error without items
Rpush(st, name, items) ==
    IF items = << >> THEN [store |-> st, reply |-> ErrorReply]
    ELSE [store |-> Put(st, name, ListEntry(ItemsOf(st, name) \o items)),
          reply |-> Reply(Num(Llen(st, name) + Len(items)))]

\* LPOP name count.  A server that knows the count argument (6.2 and later)
\* takes a non-negative integer, removes up to that many items from the head
\* and replies with them (nil for a missing list); an older server rejects
\* the second argument.
Lpop(st, name, count, countKnown) ==
    IF ~countKnown \/ ~IsArrayIndex(count) THEN [store |-> st, reply |-> ErrorReply]
    ELSE IF ~Exists(st, name) THEN [store |-> st, reply |-> Reply(Null)]
    ELSE LET items == st[name].items
             n == IF DigitsToNat(count) < Len(items) THEN DigitsToNat(count) ELSE Len(items)
             left == SubSeq(items, n + 1, Len(items))
         IN  [store |-> IF left = << >> THEN Remove(st, {name})
                        ELSE Put(st, name, ListEntry(left)),
              reply |-> Reply(Arr([i \in 1..n |-> Str(items[i])]))]

\* records.map(String)
StringsOf(records) == [i \in DOMAIN records |-> StringOf(records[i])]

\* what a method leaves behind: the database and what the call returned or threw
Outcome(st, result) == [store |-> st, ret |-> result]

insert(st, name, records) ==
    LET sent == Rpush(st, name, StringsOf(records))
    IN  IF sent.reply.kind = "error" THEN Outcome(sent.store, CollectionError)
        ELSE Outcome(sent.store, Return(records))

findOne(st, name, member, countKnown) ==
    LET sent == Lpop(st, name, member, countKnown)
    IN  IF sent.reply.kind = "error" THEN Outcome(sent.store, CollectionError)
        ELSE Outcome(sent.store, Return(sent.reply.val = Num(1)))

RECURSIVE FindMembers(_, _, _, _, _)
\* the loop of find over the members still to look for
FindMembers(st, name, members, results, countKnown) ==
    IF members = << >> THEN Outcome(st, Return(results))
    ELSE LET found == findOne(st, name, Head(members), countKnown)
         IN  IF found.ret.kind = "throw" THEN found
             ELSE FindMembers(found.store, name, Tail(members),
                     IF found.ret.val THEN Append(results, Head(members)) ELSE results,
                     countKnown)

find(st, name, members, countKnown) == FindMembers(st, name, members, << >>, countKnown)

count(st, name) == Outcome(st, Return(Llen(st, name)))

(***************************************************************************)
(* The calls on one list collection, one after the other.                  *)
(***************************************************************************)
ListName == <<"t", "e", "s", "t", ":", "l", "i", "s", "t">>
Members == {<<"i", "t", "e", "m", "1">>, <<"1">>, <<"2">>}
MemberLists == SeqsUpTo(Members, MaxArrayLen)
Records == {Str(<<"i", "t", "e", "m", "1">>), Num(1), Num(2)}
RecordLists == SeqsUpTo(Records, MaxArrayLen)

\* hist: whether the server knows the count argument of LPOP, and the database
\* as it was before the latest call
ListInit ==
    /\ method = "none"
    /\ data = Undefined
    /\ pc = "idle"
    /\ ret = NoResult
    /\ queries = << >>
    /\ store = EmptyStore
    /\ hist \in {[countKnown |-> known, before |-> EmptyStore] : known \in BOOLEAN}
    /\ last = << >>

\* the call of `name` with `argument` that leaves `outcome`
ListCall(name, argument, outcome) ==
    /\ method' = name
    /\ data' = argument
    /\ pc' = "done"
    /\ ret' = outcome.ret
    /\ store' = outcome.store
    /\ hist' = [hist EXCEPT !.before = store]
    /\ UNCHANGED <<queries, last>>

Insert ==
    \E records \in RecordLists :
        /\ pc \in {"idle", "done"}
        /\ Llen(store, ListName) + Len(records) <= MaxListLen
        /\ ListCall("insert", records, insert(store, ListName, records))

Find ==
    \E members \in MemberLists :
        /\ pc \in {"idle", "done"}
        /\ ListCall("find", members, find(store, ListName, members, hist.countKnown))

FindOne ==
    \E member \in Members :
        /\ pc \in {"idle", "done"}
        /\ ListCall("findOne", member, findOne(store, ListName, member, hist.countKnown))

Count ==
    /\ pc \in {"idle", "done"}
    /\ ListCall("count", Undefined, count(store, ListName))

ListNext == Insert \/ Find \/ FindOne \/ Count

ListSpec == ListInit /\ [][ListNext]_vars

(***************************************************************************)
(* C29. RedisListCollection.find and findOne are read-only: they leave the *)
(* stored list unchanged, so count() gives the same number after the call  *)
(* as before it.                                                           *)
(***************************************************************************)
C29_FindReadOnly ==
    (pc = "done" /\ method \in {"find", "findOne"})
    => /\ store = hist.before
       /\ count(store, ListName).ret = count(hist.before, ListName).ret

(***************************************************************************)
(* JSON.stringify and JSON.parse.                                          *)
(***************************************************************************)
\* an object that holds a reference to itself
Circular == JsValue("circular", << >>, 0, FALSE, << >>, << >>)

\* what JSON.stringify gives: a text, the value undefined, or a TypeError
Text(text) == [kind |-> "text", text |-> text]
NoText == [kind |-> "undefined", text |-> << >>]
NotSerializable == [kind |-> "throw", text |-> << >>]

RECURSIVE QuoteChars(_)
QuoteChars(s) ==
    IF s = << >> THEN << >>
    ELSE (IF Head(s) \in {"\"", "\\"} THEN <<"\\", Head(s)>> ELSE <<Head(s)>>)
            \o QuoteChars(Tail(s))

\* a string as a JSON string literal
Quote(s) == <<"\"">> \o QuoteChars(s) \o <<"\"">>

IsText(part) == part.r.kind = "text"

RECURSIVE JSONStringify(_)
JSONStringify(v) ==
    CASE v.t = "string" -> Text(Quote(v.s))
      [] v.t = "number" -> Text(IF v.b THEN <<"n", "u", "l", "l">> ELSE NumberToString(v.n))
      [] v.t = "boolean" -> Text(IF v.b THEN <<"t", "r", "u", "e">> ELSE <<"f", "a", "l", "s", "e">>)
      [] v.t = "null" -> Text(<<"n", "u", "l", "l">>)
      [] v.t = "undefined" -> NoText
      [] v.t = "circular" -> NotSerializable
      [] v.t = "array" ->
            LET parts == [i \in DOMAIN v.items |-> JSONStringify(v.items[i])]
            IN  IF \E i \in DOMAIN parts : parts[i].kind = "throw" THEN NotSerializable
                ELSE Text(<<"[">>
                        \o join([i \in DOMAIN parts |->
                                    IF parts[i].kind = "undefined" THEN <<"n", "u", "l", "l">>
                                    ELSE parts[i].text], <<",">>)
                        \o <<"]">>)
      [] OTHER ->
            LET entries == ObjectEntries(v)
                parts == [i \in DOMAIN entries |->
                            [k |-> entries[i].k, r |-> JSONStringify(entries[i].v)]]
                kept == SelectSeq(parts, IsText)
            IN  IF \E i \in DOMAIN parts : parts[i].r.kind = "throw" THEN NotSerializable
                ELSE Text(<<"{">>
                        \o join([i \in DOMAIN kept |->
                                    Quote(kept[i].k) \o <<":">> \o kept[i].r.text], <<",">>)
                        \o <<"}">>)

\* the values JSON texts stand for, as far as the model writes them
JsonValues ==
    {Str(<<"v", "a", "l", "u", "e", "1">>), Str(<< >>), Num(0), Num(42), Bool(FALSE), Null,
     Arr(<<Num(1), Null>>), Obj(<< >>), Obj(<<Prop(<<"n", "a", "m", "e">>, Str(<<"J", "o", "h", "n">>))>>)}

\* JSON.parse: the value the text stands for, a SyntaxError for any other text
JSONParse(text) ==
    IF \E v \in JsonValues : JSONStringify(v) = Text(text)
    THEN Return(CHOOSE v \in JsonValues : JSONStringify(v) = Text(text))
    ELSE Throw("SyntaxError", << >>)

(***************************************************************************)
(* KEYS pattern: glob matching with * and ? (the patterns of this          *)
(* repository hold no other glob syntax).                                  *)
(***************************************************************************)
RECURSIVE GlobMatch(_, _)
GlobMatch(pattern, key) ==
    IF pattern = << >> THEN key = << >>
    ELSE IF Head(pattern) = "*"
         THEN \E n \in 0..Len(key) : GlobMatch(Tail(pattern), SubSeq(key, n + 1, Len(key)))
    ELSE IF key = << >> THEN FALSE
    ELSE (Head(pattern) = "?" \/ Head(pattern) = Head(key))
            /\ GlobMatch(Tail(pattern), Tail(key))

\* KEYS pattern: the existing keys that match, in no particular order
KeysMatching(st, pattern) == {k \in DOMAIN st : GlobMatch(pattern, k)}

(***************************************************************************)
(* RedisHashCollectionSource, one hash per document                        *)
(* (src/src/redis-cache-manager.ts, lines 145-358).  A Result is modelled  *)
(* as a returned value (withSuccess) or a Failure (withFailure).           *)
(***************************************************************************)
\* the largest number of documents added to a collection
MaxAdded == 3

Failure == [kind |-> "failure", val |-> << >>, name |-> "CollectionError", msg |-> << >>]

\* toString(value): JSON for objects (null included), String(value) otherwise
toString(value) ==
    IF value.t \in {"object", "array", "where", "null", "circular"}
    THEN JSONStringify(value)
    ELSE Text(StringOf(value))

\* HMSET key field value ...: sets the fields of the hash, creating it
RECURSIVE Hmset(_, _)
Hmset(fields, pairs) ==
    IF pairs = << >> THEN fields
    ELSE LET p == Head(pairs)
             set == IF \E i \in DOMAIN fields : fields[i].k = p.k
                    THEN [i \in DOMAIN fields |-> IF fields[i].k = p.k THEN p ELSE fields[i]]
                    ELSE Append(fields, p)
         IN  Hmset(set, Tail(pairs))

FieldsOf(st, key) == IF Exists(st, key) THEN st[key].fields ELSE << >>

\* `${collectionName}:${i}`
HashKey(name, i) == name \o <<":">> \o NumberToString(i)

RECURSIVE AddEntities(_, _, _, _)
\* the loop of add from the entity with index i on
AddEntities(st, name, entities, i) ==
    IF i >= Len(entities) THEN Outcome(st, Return(entities))
    ELSE LET entries == ObjectEntries(entities[i + 1])
             values == [j \in DOMAIN entries |-> toString(entries[j].v)]
             args == [j \in DOMAIN entries |-> Prop(entries[j].k, values[j].text)]
         IN  IF \E j \in DOMAIN values : values[j].kind = "throw" THEN Outcome(st, Failure)
             ELSE IF Len(args) > 0
                  THEN AddEntities(
                          Put(st, HashKey(name, i),
                              HashEntry(Hmset(FieldsOf(st, HashKey(name, i)), args))),
                          name, entities, i + 1)
                  ELSE AddEntities(st, name, entities, i + 1)

hash_add(st, name, entities) ==
    IF Len(entities) = 0 THEN Outcome(st, Return(<< >>))
    ELSE AddEntities(st, name, entities, 0)

\* the keys of the collection: KEYS `${collectionName}:*`
CollectionKeys(st, name) == KeysMatching(st, name \o <<":", "*">>)

\* the document read from one hash (HGETALL): its fields as properties
Document(st, key) == Obj(st[key].fields)

\* find, the server listing the keys in the order `keys`
hash_find(st, keys) ==
    LET documents == [i \in DOMAIN keys |-> Document(st, keys[i])]
        HasFields(d) == Len(d.props) > 0
    IN  Outcome(st, Return(SelectSeq(documents, HasFields)))

hash_count(st, name) == Outcome(st, Return(Cardinality(CollectionKeys(st, name))))

hash_clear(st, name) ==
    LET keys == CollectionKeys(st, name)
    IN  Outcome(Remove(st, keys), Return(IF keys # {} THEN "success" ELSE "failure"))

\* the orders in which the server may list the keys in S
Orders(S) == {q \in SeqsUpTo(S, Cardinality(S)) :
                Len(q) = Cardinality(S) /\ \A i, j \in DOMAIN q : i # j => q[i] # q[j]}

HashName == <<"h", "a", "s", "h", "-", "t", "e", "s", "t", ":", "h", "a", "s", "h">>
Documents ==
    {Obj(<<Prop(<<"n", "a", "m", "e">>, Str(<<"J", "o", "h", "n", " ", "D", "o", "e">>)), Prop(<<"a", "g", "e">>, Str(<<"3", "0">>))>>),
     Obj(<<Prop(<<"n", "a", "m", "e">>, Str(<<"J", "a", "n", "e", " ", "S", "m", "i", "t", "h">>))>>),
     Obj(<< >>)}
DocumentLists == SeqsUpTo(Documents, MaxArrayLen)

\* hist: the number of documents added since the collection was cleared
HashInit ==
    /\ method = "none"
    /\ data = Undefined
    /\ pc = "idle"
    /\ ret = NoResult
    /\ queries = << >>
    /\ store = EmptyStore
    /\ hist = [added |-> 0]
    /\ last = << >>

\* the call of `name` with `argument` that leaves `outcome`
HashCall(name, argument, outcome) ==
    /\ method' = name
    /\ data' = argument
    /\ pc' = "done"
    /\ ret' = outcome.ret
    /\ store' = outcome.store
    /\ UNCHANGED <<queries, last>>

HashAdd ==
    \E entities \in DocumentLists :
        /\ pc \in {"idle", "done"}
        /\ hist.added + Len(entities) <= MaxAdded
        /\ HashCall("add", entities, hash_add(store, HashName, entities))
        /\ hist' = [added |-> hist.added + Len(entities)]

HashFind ==
    \E keys \in Orders(CollectionKeys(store, HashName)) :
        /\ pc \in {"idle", "done"}
        /\ HashCall("find", Undefined, hash_find(store, keys))
        /\ UNCHANGED hist

HashCount ==
    /\ pc \in {"idle", "done"}
    /\ HashCall("count", Undefined, hash_count(store, HashName))
    /\ UNCHANGED hist

HashClear ==
    /\ pc \in {"idle", "done"}
    /\ HashCall("clear", Undefined, hash_clear(store, HashName))
    /\ hist' = [added |-> 0]

HashNext == HashAdd \/ HashFind \/ HashCount \/ HashClear

HashSpec == HashInit /\ [][HashNext]_vars

(***************************************************************************)
(* C28. In the key-per-document RedisHashCollectionSource every document   *)
(* passed to add() is stored as its own document: starting from a cleared  *)
(* collection, after any sequence of add() calls count() returns the total *)
(* number of documents added and find() returns that many documents.       *)
(***************************************************************************)
C28_EveryDocumentStored ==
    /\ (pc = "done" /\ method = "count") => ret = Return(hist.added)
    /\ (pc = "done" /\ method = "find") => (ret.kind = "return" /\ Len(ret.val) = hist.added)

(***************************************************************************)
(* RedisCacheManager (src/src/redis-cache-manager.ts, lines 7-115) and the *)
(* string commands of the client it calls.                                 *)
(***************************************************************************)
\* the longest expiration, in seconds
MaxTtl == 1

\* a command handed to the client; DEL names its keys in `keys`, KEYS its
\* pattern in `key`
Command(cmd, key, keys, seconds, value) ==
    [cmd |-> cmd, key |-> key, keys |-> keys, seconds |-> seconds, value |-> value]

\* the client carrying out a command: the database afterwards and the reply,
\* an error when the call rejects (no connection, or an argument that is no
\* string, which the client refuses to encode)
Client(st, command, rejects) ==
    CASE rejects -> [store |-> st, reply |-> ErrorReply]
      [] command.cmd = "GET" ->
            [store |-> st,
             reply |-> Reply(IF Exists(st, command.key) /\ st[command.key].type = "string"
                             THEN Str(st[command.key].text) ELSE Null)]
      [] command.cmd = "SET" ->
            IF command.value.t # "string" THEN [store |-> st, reply |-> ErrorReply]
            ELSE [store |-> Put(st, command.key, StringEntry(command.value.s, 0)),
                  reply |-> Reply(Str(<<"O", "K">>))]
      [] command.cmd = "SETEX" ->
            IF command.value.t # "string" \/ command.seconds < 1
            THEN [store |-> st, reply |-> ErrorReply]
            ELSE [store |-> Put(st, command.key,
                                StringEntry(command.value.s, command.seconds)),
                  reply |-> Reply(Str(<<"O", "K">>))]
      [] command.cmd = "DEL" ->
            [store |-> Remove(st, command.keys),
             reply |-> Reply(Num(Cardinality(command.keys \cap DOMAIN st)))]
      [] OTHER -> [store |-> st, reply |-> Reply(KeysMatching(st, command.key))]

Base64Alphabet ==
    <<"A", "B", "C", "D", "E", "F", "G", "H", "I", "J", "K", "L", "M", "N",
    "O", "P", "Q", "R", "S", "T", "U", "V", "W", "X", "Y", "Z", "a", "b",
    "c", "d", "e", "f", "g", "h", "i", "j", "k", "l", "m", "n", "o", "p",
    "q", "r", "s", "t", "u", "v", "w", "x", "y", "z", "0", "1", "2", "3",
    "4", "5", "6", "7", "8", "9", "+", "/">>

\* the code of a character of an ASCII text: the characters with the codes 32
\* to 95 and 97 to 126, in order
CharCode(c) ==
    LET upTo95 ==
            <<" ", "!", "\"", "#", "$", "%", "&", "'", "(", ")", "*", "+",
            ",", "-", ".", "/", "0", "1", "2", "3", "4", "5", "6", "7", "8",
            "9", ":", ";", "<", "=", ">", "?", "@", "A", "B", "C", "D", "E",
            "F", "G", "H", "I", "J", "K", "L", "M", "N", "O", "P", "Q", "R",
            "S", "T", "U", "V", "W", "X", "Y", "Z", "[", "\\", "]", "^",
            "_">>
        from97 ==
            <<"a", "b", "c", "d", "e", "f", "g", "h", "i", "j", "k", "l",
            "m", "n", "o", "p", "q", "r", "s", "t", "u", "v", "w", "x", "y",
            "z", "{", "|", "}", "~">>
    IN  IF \E i \in DOMAIN upTo95 : upTo95[i] = c
        THEN 31 + CHOOSE i \in DOMAIN upTo95 : upTo95[i] = c
        ELSE 96 + CHOOSE i \in DOMAIN from97 : from97[i] = c

RECURSIVE Base64(_)
\* Buffer.from(text).toString('base64') of the bytes of an ASCII text
Base64(bytes) ==
    IF bytes = << >> THEN << >>
    ELSE LET n == Len(bytes)
             b1 == bytes[1]
             b2 == IF n >= 2 THEN bytes[2] ELSE 0
             b3 == IF n >= 3 THEN bytes[3] ELSE 0
         IN  <<Base64Alphabet[(b1 \div 4) + 1],
               Base64Alphabet[(b1 % 4) * 16 + (b2 \div 16) + 1],
               IF n >= 2 THEN Base64Alphabet[(b2 % 16) * 4 + (b3 \div 64) + 1] ELSE "=",
               IF n >= 3 THEN Base64Alphabet[(b3 % 64) + 1] ELSE "=">>
             \o Base64(IF n > 3 THEN SubSeq(bytes, 4, n) ELSE << >>)

\* options.enabled ?? true
Enabled_Always(options) == TRUE
Enabled(options) ==
    IF options.enabled.t \in {"undefined", "null"} THEN TRUE ELSE options.enabled.b

\* the constructor: the manager built from its options
RedisCacheManager(options) ==
    [enabled |-> Enabled(options),
     defaultTtl |-> options.ttl,
     prefix |-> IF options.prefix.t \in {"undefined", "null"} THEN << >>
                ELSE options.prefix.s,
     options |-> options]

buildKey(m, key) == IF m.prefix # << >> THEN m.prefix \o <<":">> \o key ELSE key

generateKey(operation, query) ==
    LET queryString == JSONStringify(IF IsFalsy(query) THEN Obj(<< >>) ELSE query).text
        encodedQuery == Base64([i \in DOMAIN queryString |-> CharCode(queryString[i])])
    IN  operation \o <<":">> \o encodedQuery

\* what a call leaves behind: the database, the commands it handed to the
\* client, and what its promise settled with
Settled(st, commands, result) == [store |-> st, commands |-> commands, ret |-> result]

NoKeys == {}

\* get's catch block
GetFailed_Thrown == Throw("Error", << >>)
GetFailed == Return(Null)

\* `fails` is the number of the client call of the method that rejects, 0
\* when none does
get(m, st, key, fails) ==
    IF ~m.enabled THEN Settled(st, << >>, Return(Null))
    ELSE LET command == Command("GET", buildKey(m, key), NoKeys, 0, Null)
             value == Client(st, command, fails = 1).reply
         IN  Settled(st, <<command>>,
                     IF value.kind = "error" THEN GetFailed
                     ELSE IF IsFalsy(value.val) THEN Return(Null)
                     ELSE IF JSONParse(value.val.s).kind = "throw" THEN GetFailed
                     ELSE JSONParse(value.val.s))

\* ttl ?? this.defaultTtl
TtlSeconds_Falsy(ttl, defaultTtl) ==
    IF IsFalsy(ttl) THEN defaultTtl ELSE ttl.n
TtlSeconds(ttl, defaultTtl) ==
    IF ttl.t \in {"undefined", "null"} THEN defaultTtl ELSE ttl.n

set(m, st, key, value, ttl, fails) ==
    IF ~m.enabled THEN Settled(st, << >>, Return(Undefined))
    ELSE LET serializedValue == JSONStringify(value)
             text == IF serializedValue.kind = "text" THEN Str(serializedValue.text)
                     ELSE Undefined
             ttlSeconds == TtlSeconds(ttl, m.defaultTtl)
             command == IF ttlSeconds = 0
                        THEN Command("SET", buildKey(m, key), NoKeys, 0, text)
                        ELSE Command("SETEX", buildKey(m, key), NoKeys, ttlSeconds, text)
         IN  IF serializedValue.kind = "throw" THEN Settled(st, << >>, Return(Undefined))
             ELSE Settled(Client(st, command, fails = 1).store, <<command>>,
                          Return(Undefined))

delete_KeyOnly(m, st, key, fails) ==
    IF ~m.enabled THEN Settled(st, << >>, Return(Undefined))
    ELSE LET command == Command("DEL", key, {key}, 0, Null)
         IN  Settled(Client(st, command, fails = 1).store, <<command>>, Return(Undefined))
delete(m, st, key, fails) ==
    IF ~m.enabled THEN Settled(st, << >>, Return(Undefined))
    ELSE LET command == Command("DEL", buildKey(m, key), {buildKey(m, key)}, 0, Null)
         IN  Settled(Client(st, command, fails = 1).store, <<command>>, Return(Undefined))

\* clearPrefix ? `${clearPrefix}:*` : '*'
ClearPattern_All(clearPrefix) == <<"*">>
ClearPattern(clearPrefix) ==
    IF clearPrefix # << >> THEN clearPrefix \o <<":", "*">> ELSE <<"*">>

clear(m, st, prefix, fails) ==
    IF ~m.enabled THEN Settled(st, << >>, Return(Undefined))
    ELSE LET clearPrefix == IF IsFalsy(prefix) THEN m.prefix ELSE prefix.s
             listing == Command("KEYS", ClearPattern(clearPrefix), NoKeys, 0, Null)
             keys == Client(st, listing, fails = 1).reply
             removal == Command("DEL", << >>, keys.val, 0, Null)
         IN  IF keys.kind = "error" \/ keys.val = {}
             THEN Settled(st, <<listing>>, Return(Undefined))
             ELSE Settled(Client(st, removal, fails = 2).store, <<listing, removal>>,
                          Return(Undefined))

(***************************************************************************)
(* Two cache managers on one database, called in any order, while time     *)
(* passes and another client of the database writes to the same keys.      *)
(* `queries` holds the commands the last call handed to the client, `last` *)
(* the database before the call and which of its client calls rejected.    *)
(* `hist` names the managers and the cache key of the behaviour and keeps, *)
(* for each full key, what the calls so far say about the entry: `status`  *)
(* and `value` follow the last set or delete of the key ("unknown" after a *)
(* clear, an expiry, a rejected call or a write of another client), and    *)
(* `expect` is the value the stored text stands for.                       *)
(***************************************************************************)
CacheOptions(enabled, ttl, prefix) == [enabled |-> enabled, ttl |-> ttl, prefix |-> prefix]

Operation == <<"f", "i", "n", "d">>
PlainKey == <<"t", "e", "s", "t", "-", "k", "e", "y">>
QueryKey == generateKey(Operation, Obj(<<Prop(<<"i", "d">>, Num(1))>>))

\* the options of the two managers and the cache key of a behaviour
Scenario(first, second, key) == [options |-> <<first, second>>, key |-> key]
Scenarios ==
    {Scenario(CacheOptions(Undefined, MaxTtl, Undefined),
              CacheOptions(Bool(TRUE), 0, Str(<<"a", "p", "p">>)), key) : key \in {PlainKey, QueryKey}}
    \cup
    {Scenario(CacheOptions(Bool(TRUE), MaxTtl, Str(<<"a", "p", "p">>)),
              CacheOptions(Bool(TRUE), 0, Str(<<"u", "s", "e", "r">>)), PlainKey),
     Scenario(CacheOptions(Bool(TRUE), MaxTtl, Str(<<"a", "p", "p">>)),
              CacheOptions(Bool(FALSE), 0, Str(<<"a", "p", "p">>)), PlainKey),
     Scenario(CacheOptions(Undefined, 0, Str(<<"a", "p", "p">>)),
              CacheOptions(Bool(TRUE), MaxTtl, Str(<<"a", "p", "p", ":", "v", "2">>)), PlainKey),
     Scenario(CacheOptions(Bool(FALSE), MaxTtl, Str(<< >>)),
              CacheOptions(Bool(TRUE), MaxTtl, Str(<< >>)), PlainKey)}

CacheValues == {Str(<<"v", "a", "l", "u", "e", "1">>), NaN, Undefined, Circular}
Ttls == {Undefined} \cup {Num(n) : n \in 0..MaxTtl}
ClearPrefixes == {Undefined, Str(<< >>), Str(Operation)}
ForeignTexts == {<<"i", "n", "v", "a", "l", "i", "d", "-", "j", "s", "o", "n">>}

\* the arguments of set and whether its client call rejects: every value
\* with the default expiration, one value with every expiration
SetCalls ==
    {[value |-> v, ttl |-> Undefined, fails |-> 0] : v \in CacheValues}
    \cup {[value |-> Str(<<"v", "a", "l", "u", "e", "1">>), ttl |-> ttl, fails |-> 0] : ttl \in Ttls}
    \cup {[value |-> Str(<<"v", "a", "l", "u", "e", "1">>), ttl |-> Undefined, fails |-> 1]}

\* the argument of clear and which of its two client calls rejects
ClearCalls ==
    {[prefix |-> p, fails |-> 0] : p \in ClearPrefixes}
    \cup {[prefix |-> Undefined, fails |-> n] : n \in 1..2}

Unknown == [status |-> "unknown", value |-> Null, expect |-> Return(Null), known |-> FALSE]
Never == [status |-> "never", value |-> Null, expect |-> Return(Null), known |-> TRUE]

FullKeys(managers, key) == {buildKey(managers[i], key) : i \in DOMAIN managers}

CacheInit ==
    /\ method = "none"
    /\ data = Undefined
    /\ pc = "idle"
    /\ ret = NoResult
    /\ queries = << >>
    /\ store = EmptyStore
    /\ \E scenario \in Scenarios :
          LET managers == [i \in DOMAIN scenario.options |->
                              RedisCacheManager(scenario.options[i])]
          IN  hist = [managers |-> managers, key |-> scenario.key,
                      known |-> [f \in FullKeys(managers, scenario.key) |-> Never]]
    /\ last = [before |-> EmptyStore, fails |-> 0]

\* the call of `name` on the manager m that settles as `settled`
CacheCall(name, m, value, ttl, prefix, fails, settled) ==
    /\ method' = name
    /\ data' = [manager |-> m, key |-> hist.key, value |-> value, ttl |-> ttl,
                prefix |-> prefix]
    /\ pc' = "done"
    /\ ret' = settled.ret
    /\ queries' = settled.commands
    /\ store' = settled.store
    /\ last' = [before |-> store, fails |-> fails]

\* the record of the full key f changed to `rec`
Noted(f, rec) == [hist EXCEPT !.known[f] = rec]

CacheGet ==
    \E i \in DOMAIN hist.managers, fails \in 0..1 :
        /\ pc \in {"idle", "done"}
        /\ CacheCall("get", hist.managers[i], Undefined, Undefined, Undefined, fails,
                     get(hist.managers[i], store, hist.key, fails))
        /\ UNCHANGED hist

CacheSet ==
    \E i \in DOMAIN hist.managers, call \in SetCalls :
        LET m == hist.managers[i]
            f == buildKey(m, hist.key)
            value == call.value
            ttl == call.ttl
            fails == call.fails
            json == JSONStringify(value)
        IN  /\ pc \in {"idle", "done"}
            /\ CacheCall("set", m, value, ttl, Undefined, fails,
                         set(m, store, hist.key, value, ttl, fails))
            /\ hist' = IF ~m.enabled THEN hist
                       ELSE IF fails # 0 THEN Noted(f, Unknown)
                       ELSE Noted(f, [status |-> "set", value |-> value,
                                      expect |-> IF json.kind = "text" THEN JSONParse(json.text)
                                                 ELSE hist.known[f].expect,
                                      known |-> json.kind = "text" \/ hist.known[f].known])

CacheDelete ==
    \E i \in DOMAIN hist.managers, fails \in 0..1 :
        LET m == hist.managers[i]
        IN  /\ pc \in {"idle", "done"}
            /\ CacheCall("delete", m, Undefined, Undefined, Undefined, fails,
                         delete(m, store, hist.key, fails))
            /\ hist' = IF ~m.enabled THEN hist
                       ELSE IF fails # 0 THEN Noted(buildKey(m, hist.key), Unknown)
                       ELSE Noted(buildKey(m, hist.key),
                                  [status |-> "deleted", value |-> Null,
                                   expect |-> Return(Null), known |-> TRUE])

CacheClear ==
    \E i \in DOMAIN hist.managers, call \in ClearCalls :
        LET m == hist.managers[i]
        IN  /\ pc \in {"idle", "done"}
            /\ CacheCall("clear", m, Undefined, Undefined, call.prefix, call.fails,
                         clear(m, store, call.prefix, call.fails))
            /\ hist' = IF ~m.enabled THEN hist
                       ELSE [hist EXCEPT !.known = [f \in DOMAIN @ |-> Unknown]]

\* one second passes: the entries that expire are gone
Expire ==
    LET expired == {k \in DOMAIN store : store[k].ttl = 1}
    IN  /\ \E k \in DOMAIN store : store[k].ttl > 0
        /\ store' = [k \in DOMAIN store \ expired |->
                        IF store[k].ttl > 0 THEN [store[k] EXCEPT !.ttl = @ - 1]
                        ELSE store[k]]
        /\ hist' = [hist EXCEPT !.known = [f \in DOMAIN @ |->
                                            IF f \in expired THEN Unknown ELSE @[f]]]
        /\ method' = "expire"
        /\ data' = Undefined
        /\ pc' = "idle"
        /\ ret' = NoResult
        /\ queries' = << >>
        /\ last' = [before |-> store, fails |-> 0]

\* another client of the database sets one of the keys to a text of its own
ForeignSet ==
    \E f \in DOMAIN hist.known, text \in ForeignTexts :
        /\ pc \in {"idle", "done"}
        /\ store' = Put(store, f, StringEntry(text, 0))
        /\ hist' = Noted(f, Unknown)
        /\ method' = "foreign"
        /\ data' = Undefined
        /\ pc' = "idle"
        /\ ret' = NoResult
        /\ queries' = << >>
        /\ last' = [before |-> store, fails |-> 0]

CacheNext == CacheGet \/ CacheSet \/ CacheDelete \/ CacheClear \/ Expire \/ ForeignSet

CacheSpec == CacheInit /\ [][CacheNext]_vars

(***************************************************************************)
(* Claims on RedisCacheManager.                                            *)
(***************************************************************************)
\* a call on an enabled manager none of whose client calls rejected
Served(m) == Called(m) /\ data.manager.enabled /\ last.fails = 0

\* the full key of the last call and what the calls before it say about it
CalledKey == buildKey(data.manager, data.key)
CalledEntry == hist.known[CalledKey]

BeginsWith(s, p) == Len(s) >= Len(p) /\ SubSeq(s, 1, Len(p)) = p

(***************************************************************************)
(* C22, as stated. On an enabled RedisCacheManager with a working client,  *)
(* get(k) returns a value equal to the v of the most recent set(k, v) as   *)
(* long as no delete(k), clear() or expiry happened since; after           *)
(* delete(k), get(k) returns null until the next set(k, .); get of a key   *)
(* never set returns null.                                                 *)
(***************************************************************************)
C22_GetReturnsLastSet ==
    Served("get") =>
        /\ CalledEntry.status = "set" => ret = Return(CalledEntry.value)
        /\ CalledEntry.status \in {"deleted", "never"} => ret = Return(Null)

(***************************************************************************)
(* C22, amended. get(k) returns what JSON.parse gives for the JSON text of *)
(* the v of the most recent set(k, v) that has a JSON text, as long as no  *)
(* delete(k), clear() or expiry happened since; a set(k, v) whose v has no *)
(* JSON text stores nothing and leaves the entry as it was; after          *)
(* delete(k), get(k) returns null until the next such set; get of a key    *)
(* never set returns null.                                                 *)
(***************************************************************************)
C22_GetReturnsStoredValue ==
    (Served("get") /\ CalledEntry.known) => ret = CalledEntry.expect

C22_Witness ==
    /\ Served("get")
    /\ CalledEntry.status = "set"
    /\ CalledEntry.value = NaN
    /\ ret = Return(Null)
    /\ data.manager.prefix # << >>

(***************************************************************************)
(* C23. When a RedisCacheManager is disabled (options.enabled === false),  *)
(* no get, set, delete or clear call issues any command to the client, the *)
(* stored data is left unchanged, and every get returns null; a manager    *)
(* whose options.enabled is undefined is enabled and does issue commands.  *)
(***************************************************************************)
C23_DisabledIssuesNothing ==
    pc = "done" =>
        /\ data.manager.options.enabled = Bool(FALSE) =>
              /\ queries = << >>
              /\ store = last.before
              /\ method = "get" => ret = Return(Null)
        /\ data.manager.options.enabled = Undefined =>
              /\ data.manager.enabled
              /\ method \in {"get", "delete", "clear"} => queries # << >>

C23_Witness ==
    /\ Called("set")
    /\ data.manager.options.enabled = Bool(FALSE)
    /\ data.value = Str(<<"v", "a", "l", "u", "e", "1">>)
    /\ store # EmptyStore

(***************************************************************************)
(* C24. RedisCacheManager never propagates a failure to its caller: when   *)
(* the client call rejects or the stored text is not valid JSON, get       *)
(* resolves to null; when the client call rejects, set, delete and clear   *)
(* resolve normally; when JSON.stringify throws on the value, set resolves *)
(* normally and issues no set/setEx command.                               *)
(***************************************************************************)
C24_NeverPropagates ==
    pc = "done" =>
        /\ ret.kind = "return"
        /\ (method = "get" /\ data.manager.enabled /\ last.fails # 0) => ret = Return(Null)
        /\ (Served("get") /\ Exists(store, CalledKey)
                /\ JSONParse(store[CalledKey].text).kind = "throw") => ret = Return(Null)
        /\ (method = "set" /\ JSONStringify(data.value).kind = "throw") =>
              queries = << >> /\ store = last.before

C24_Witness ==
    /\ Served("get")
    /\ Exists(store, CalledKey)
    /\ store[CalledKey].text = <<"i", "n", "v", "a", "l", "i", "d", "-", "j", "s", "o", "n">>
    /\ ret = Return(Null)

(***************************************************************************)
(* C25. set(k, v, ttl) stores the entry with an expiration of exactly T    *)
(* seconds, T being ttl when given and the manager's default ttl           *)
(* otherwise, except that T = 0 stores the entry with no expiration (plain *)
(* SET, never SETEX); an entry without expiration is never removed by      *)
(* expiry, and one with an expiration is removed when its last second has  *)
(* passed.                                                                 *)
(***************************************************************************)
C25_Expiration ==
    /\ (Served("set") /\ JSONStringify(data.value).kind = "text") =>
          LET T == IF data.ttl = Undefined THEN data.manager.defaultTtl ELSE data.ttl.n
              text == JSONStringify(data.value).text
          IN  /\ queries = <<Command(IF T = 0 THEN "SET" ELSE "SETEX", CalledKey, NoKeys,
                                     T, Str(text))>>
              /\ Exists(store, CalledKey)
              /\ store[CalledKey] = StringEntry(text, T)
    /\ method = "expire" =>
          \A k \in DOMAIN last.before :
              LET seconds == last.before[k].ttl
              IN  /\ seconds = 0 => (Exists(store, k) /\ store[k] = last.before[k])
                  /\ seconds = 1 => ~Exists(store, k)
                  /\ seconds > 1 => (Exists(store, k) /\ store[k].ttl = seconds - 1)

C25_Witness ==
    /\ Served("set")
    /\ data.ttl = Num(0)
    /\ data.manager.defaultTtl > 0
    /\ Exists(last.before, CalledKey)
    /\ last.before[CalledKey].ttl > 0
    /\ store[CalledKey].ttl = 0

(***************************************************************************)
(* C26, as stated. clear() with no argument removes the entries written    *)
(* through managers that have the same prefix and nothing else: an entry   *)
(* written through a manager with a different prefix is still there        *)
(* afterwards.                                                             *)
(***************************************************************************)
C26_ClearOwnPrefixOnly ==
    (Served("clear") /\ data.prefix = Undefined) =>
        \A i \in DOMAIN hist.managers :
            LET other == hist.managers[i]
                key == buildKey(other, data.key)
            IN  (/\ other.enabled
                 /\ Exists(last.before, key)
                 /\ last.before[key].text \notin ForeignTexts) =>
                    IF other.prefix = data.manager.prefix THEN ~Exists(store, key)
                    ELSE Exists(store, key) /\ store[key] = last.before[key]

(***************************************************************************)
(* C26, amended. clear() with no argument on a manager with the prefix P   *)
(* removes the keys that begin with "P:" and no other key, so also the     *)
(* entries of a manager whose prefix begins with "P:"; on a manager        *)
(* without prefix it removes every key of the database.                    *)
(***************************************************************************)
C26_ClearRemovesPrefixedKeys ==
    (Served("clear") /\ data.prefix = Undefined) =>
        LET P == data.manager.prefix
        IN  store = Remove(last.before,
                           {k \in DOMAIN last.before :
                               P = << >> \/ BeginsWith(k, P \o <<":">>)})

C26_Witness ==
    /\ Served("clear")
    /\ data.prefix = Undefined
    /\ data.manager.prefix = <<"a", "p", "p">>
    /\ Cardinality(DOMAIN last.before) = 2
    /\ Cardinality(DOMAIN store) = 1

(***************************************************************************)
(* C27. clear(p) with an explicit prefix p invalidates this manager's      *)
(* entries whose key begins with p: for every manager configuration, after *)
(* set(generateKey(op, q), v) a call clear(op) leaves no entry under       *)
(* generateKey(op, q), so that get returns null.                           *)
(***************************************************************************)
C27_ClearOperationInvalidates ==
    (Served("clear") /\ data.prefix = Str(Operation) /\ data.key = QueryKey) =>
        /\ ~Exists(store, CalledKey)
        /\ get(data.manager, store, data.key, 0).ret = Return(Null)

(***************************************************************************)
(* Several callers on one factory.  A call of a create method assigns its  *)
(* local `query` array, pushes its tokens onto it one after the other and  *)
(* returns it; parse and createRemoveQuery are single expressions.  The    *)
(* steps of different callers interleave in any order.  pc, data, ret and  *)
(* hist (the number of tokens pushed) are kept per caller, `queries` holds *)
(* the query arrays, `store` the factory object, and `last` tells for each *)
(* caller whether another caller took a step while its call was running.   *)
(***************************************************************************)
\* the number of callers
NumCallers == 2
Callers == 1..NumCallers

\* the factory object: its only field is the mapper given to the constructor
Factory == [mapper |-> Undefined]

Invocation(name, argument) == [method |-> name, argument |-> argument]

Invocations ==
    {Invocation("createFindQuery",
                FindOptions(Condition(<<"s", "t", "a", "t", "u", "s">>, <<"e", "q">>, Str(<<"a", "c", "t", "i", "v", "e">>)),
                            Absent, Num(10), Absent)),
     Invocation("createFindQuery",
                FindOptions(Condition(<<"a">>, <<"r", "e", "g", "e", "x">>, Str(<<"1">>)), Absent, Absent, Absent)),
     Invocation("createCountQuery", Obj(<< >>)),
     Invocation("createAggregationQuery", Obj(<< >>)),
     Invocation("createRemoveQuery", Arr(<<Str(<<"u", "s", "e", "r", ":", "1">>)>>)),
     Invocation("parse", Condition(<<"a", "g", "e">>, <<"l", "t">>, Num(65)))}

\* what the call returns or throws when it runs alone
Alone(call) ==
    CASE call.method = "createFindQuery" -> createFindQuery(call.argument)
      [] call.method = "createCountQuery" -> createCountQuery(call.argument)
      [] call.method = "createAggregationQuery" -> createAggregationQuery(call.argument)
      [] call.method = "createRemoveQuery" -> createRemoveQuery(call.argument)
      [] OTHER -> parse(call.argument)

\* let query = [...]: the array a call starts with, none for a call that is a
\* single expression
InitialQuery(call) ==
    CASE call.method \in {"createFindQuery", "createCountQuery"} ->
            <<<<"F", "T", ".", "S", "E", "A", "R", "C", "H">>, <<"i", "n", "d", "e", "x", "N", "a", "m", "e">>>>
      [] call.method = "createAggregationQuery" -> <<<<"F", "T", ".", "A", "G", "G", "R", "E", "G", "A", "T", "E">>, <<"i", "n", "d", "e", "x", "N", "a", "m", "e">>>>
      [] OTHER -> << >>

\* the tokens the call pushes, in order; none once parsing the where throws
Pushes(call) ==
    IF InitialQuery(call) = << >> \/ Alone(call).kind = "throw" THEN << >>
    ELSE SubSeq(Alone(call).val, 3, Len(Alone(call).val))

\* the query array of the call of caller c: a local of the call
QueryOf_Shared(c) == 1
QueryOf(c) == c

ConcurrentInit ==
    /\ method = "concurrent"
    /\ data = [c \in Callers |-> Invocation("none", Undefined)]
    /\ pc = [c \in Callers |-> "idle"]
    /\ ret = [c \in Callers |-> NoResult]
    /\ queries = [c \in Callers |-> << >>]
    /\ store = Factory
    /\ hist = [c \in Callers |-> 0]
    /\ last = [c \in Callers |-> FALSE]

\* the calls that were running while caller c took a step
Overlapped(c) == [d \in Callers |-> IF d # c /\ pc[d] = "running" THEN TRUE ELSE last[d]]

Begin ==
    \E c \in Callers, call \in Invocations :
        /\ pc[c] \in {"idle", "done"}
        /\ pc' = [pc EXCEPT ![c] = "running"]
        /\ data' = [data EXCEPT ![c] = call]
        /\ ret' = [ret EXCEPT ![c] = NoResult]
        /\ hist' = [hist EXCEPT ![c] = 0]
        /\ queries' = [queries EXCEPT ![QueryOf(c)] = InitialQuery(call)]
        /\ last' = [Overlapped(c) EXCEPT ![c] = FALSE]
        /\ UNCHANGED <<method, store>>

Push ==
    \E c \in Callers :
        /\ pc[c] = "running"
        /\ hist[c] < Len(Pushes(data[c]))
        /\ queries' = [queries EXCEPT ![QueryOf(c)] = Append(@, Pushes(data[c])[hist[c] + 1])]
        /\ hist' = [hist EXCEPT ![c] = @ + 1]
        /\ last' = Overlapped(c)
        /\ UNCHANGED <<method, data, pc, ret, store>>

Finish ==
    \E c \in Callers :
        /\ pc[c] = "running"
        /\ hist[c] = Len(Pushes(data[c]))
        /\ ret' = [ret EXCEPT ![c] = IF InitialQuery(data[c]) = << >>
                                        \/ Alone(data[c]).kind = "throw"
                                     THEN Alone(data[c])
                                     ELSE Return(queries[QueryOf(c)])]
        /\ pc' = [pc EXCEPT ![c] = "done"]
        /\ last' = Overlapped(c)
        /\ UNCHANGED <<method, data, queries, store, hist>>

ConcurrentNext == Begin \/ Push \/ Finish

ConcurrentSpec == ConcurrentInit /\ [][ConcurrentNext]_vars

(***************************************************************************)
(* C21. RedisWhereParser.parse and the four create*Query methods are       *)
(* stateless: under any interleaving of calls made by several callers on   *)
(* the same factory, every call returns the result it returns when run     *)
(* alone on the same arguments, and no call changes state that another     *)
(* call reads (the factory object stays as constructed, and the query      *)
(* array of a running call holds the tokens of that call only).            *)
(***************************************************************************)
C21_Stateless ==
    /\ store = Factory
    /\ \A c \in Callers :
          /\ pc[c] = "done" => ret[c] = Alone(data[c])
          /\ (pc[c] = "running" /\ InitialQuery(data[c]) # << >>) =>
                queries[c] = InitialQuery(data[c]) \o SubSeq(Pushes(data[c]), 1, hist[c])

C21_Witness ==
    /\ pc[1] = "done"
    /\ last[1]
    /\ data[1].method = "createFindQuery"
    /\ Len(ret[1].val) = 6
    /\ pc[2] = "running"
    /\ data[2].method = "createCountQuery"
    /\ hist[2] = 2

====
